---- MODULE Spec2Model ----
(***************************************************************************)
(* Model of sooperGUI (src/sooperGUI.go): the per-loop state store, the    *)
(* inbound OSC dispatcher (handleOSC / commonUpdate), the pointer-to-gain  *)
(* mapper (the SetMouseCapture callback of main), the render pass          *)
(* (updateTable), and the locking discipline around the mutex mu.          *)
(*                                                                         *)
(* Numbers.  float32 values are fixed-point integers counted in 1/Unit     *)
(* (thousandths): 0.921 is 921.  A float64 argument carries one extra      *)
(* half-unit bit that float32 cannot hold, so the narrowing float32(v) is  *)
(* a real rounding step (ToFloat32), not the identity.                     *)
(*                                                                         *)
(* Specifications.  Spec runs whole handlers as single steps; SpecConc runs *)
(* the goroutines statement by statement; SpecMapper applies the           *)
(* fraction-to-amplitude computation of both copies of the program (the    *)
(* linear one of src/sooperGUI.go and the decibel one of                   *)
(* src/unnamed/part_006) to every pointer position; SpecLive adds the      *)
(* lossy network and the remote side, with fairness; SpecLock is SpecConc  *)
(* with fair scheduling; SpecPure calls the helper functions containsInt   *)
(* and amplitudeToMeterFill; SpecWrites runs the writers of the fields in  *)
(* longer runs of whole handlers; SpecCadence is the startup and the poll  *)
(* goroutine over a lossy network, with fairness; SpecZero is SpecConc     *)
(* with pongs that announce no loops; SpecMock puts the program next to    *)
(* the OSC mock of src/mock_api.go.                                        *)
(*                                                                         *)
(* Addresses.  An OSC address "/a/b/c" is the sequence <<"a","b","c">> of  *)
(* its path segments; strings.Split(addr, "/") is <<"">> \o addr.          *)
(***************************************************************************)
EXTENDS Integers, Sequences, FiniteSets, TLC

\* ------------------------------------------------------------------ bounds

\* Loop indices 0..MaxIdx are the indices messages and rows usually name.
MaxIdx == 1

\* Largest cell width (and pointer offset) a pointer event reports.
MaxWidth == 3

\* Number of operations in one behaviour of Spec.
MaxSteps == 2

\* Widest cell (and largest pointer offset) of the mapper check, SpecMapper.
MaxCell == 100

\* Number of times the remote values change in one behaviour of SpecLive.
MaxChanges == 1

\* Number of handler runs in one behaviour of SpecWrites.
MaxWrites == 3

\* Longest slice, and largest element, given to containsInt in SpecPure.
MaxLen == 5

\* Number of steps of the amplitude sweep from 0 to 1.0 in SpecPure.
MaxAmp == 20

\* ------------------------------------------------------- program constants

\* Fixed-point resolution: the literal 0.921 is written in thousandths.
Unit == 1000

\* const maxWet = 0.921
MaxWet == 921

\* loopCount = 1
InitLoopCount == 1

\* The Level column of the table.
LevelCol == 7

\* Fixed-point resolution of the dB mapper: the literal 0.98978457 is written
\* in millionths.
Micro == 1000000

\* const maxFill = 0.98978457
maxFill == 989785

\* meterMinDB = -70.0
meterMinDB == -70

\* meterMaxDB = 0.0
meterMaxDB == 0

\* ------------------------------------------------------------------- state

VARIABLES
    loopStates,   \* map[int]*LoopState: a function on the indices that have an entry
    loopCount,    \* the global loopCount
    mu,           \* holder of the mutex mu, or NoTask
    pc,           \* position of each task (used by SpecConc)
    tmp,          \* task-local variables (used by SpecConc)
    snapshot,     \* rows drawn by the last completed render pass
    sent,         \* messages the last operation handed to Client.Send
    lastOp,       \* history: the last operation performed
    prev,         \* history: store and loopCount before the last operation
    steps,        \* number of operations performed
    net,          \* datagrams in flight (used by SpecLive)
    engine        \* the control values the engine and the mock hold (used by SpecLive)

vars ==
    <<loopStates, loopCount, mu, pc, tmp, snapshot, sent, lastOp, prev, steps, net, engine>>

\* ------------------------------------------------------------- LoopState

\* &LoopState{}: the zero value.
ZeroLoopState ==
    [State |-> 0, NextState |-> 0, LoopPos |-> 0,
     InPeakMeter |-> 0, OutPeakMeter |-> 0, Wet |-> 0]

\* loopStates[idx] != nil
HasEntry(ls, idx) == idx \in DOMAIN ls

\* The value a reader sees for index idx: the entry, or a zero LoopState.
EntryOrZero(ls, idx) == IF HasEntry(ls, idx) THEN ls[idx] ELSE ZeroLoopState

\* Function update that may extend the domain (a Go map assignment).
MapPut(ls, idx, rec) ==
    [i \in DOMAIN ls \cup {idx} |-> IF i = idx THEN rec ELSE ls[i]]

\* getLoopState: create the entry when it is absent; the store afterwards.
getLoopState(ls, idx) ==
    IF HasEntry(ls, idx) THEN ls ELSE MapPut(ls, idx, ZeroLoopState)

\* ----------------------------------------------------------- OSC arguments

Int32(n) == [t |-> "int32", i |-> n, s |-> "", p |-> <<>>, f |-> 0, h |-> 0]
Str(x) == [t |-> "string", i |-> 0, s |-> x, p |-> <<>>, f |-> 0, h |-> 0]
\* A string argument that holds an OSC address (a reply path).
PathArg(a) == [t |-> "string", i |-> 0, s |-> "/", p |-> a, f |-> 0, h |-> 0]
F32(x) == [t |-> "float32", i |-> 0, s |-> "", p |-> <<>>, f |-> x, h |-> 0]
\* float64 value x + h/2 (in 1/Unit), h \in {0, 1}
F64(x, half) == [t |-> "float64", i |-> 0, s |-> "", p |-> <<>>, f |-> x, h |-> half]

Msg(address, arguments) == [addr |-> address, args |-> arguments]

\* float32(v) for a float32 or float64 argument: round to nearest, ties to even.
ToFloat32(a) ==
    IF a.t = "float64" /\ a.h = 1
    THEN (IF a.f % 2 = 0 THEN a.f ELSE a.f + 1)
    ELSE a.f

\* int(v) for a float32 v: truncation toward zero.
FloatToInt(x) == IF x >= 0 THEN x \div Unit ELSE -((-x) \div Unit)

\* ------------------------------------------------------------ address text

NoInt == [ok |-> FALSE, n |-> 0]

\* strconv.Atoi on the segments the model uses.
Atoi(seg) ==
    CASE seg = "-1" -> [ok |-> TRUE, n |-> -1]
      [] seg = "0" -> [ok |-> TRUE, n |-> 0]
      [] seg = "1" -> [ok |-> TRUE, n |-> 1]
      [] seg = "2" -> [ok |-> TRUE, n |-> 2]
      [] seg = "3" -> [ok |-> TRUE, n |-> 3]
      [] seg = "4" -> [ok |-> TRUE, n |-> 4]
      [] seg = "5" -> [ok |-> TRUE, n |-> 5]
      [] OTHER -> NoInt

\* strconv.Itoa / the %d verb, on the same range.
Itoa(n) ==
    CASE n = -1 -> "-1"
      [] n = 0 -> "0"
      [] n = 1 -> "1"
      [] n = 2 -> "2"
      [] n = 3 -> "3"
      [] n = 4 -> "4"
      [] n = 5 -> "5"
      [] OTHER -> "?"

\* The digit run of a segment "Sooper<digits>" (the regexp group (\d+)), or "".
SooperDigits(seg) ==
    CASE seg = "Sooper0" -> "0"
      [] seg = "Sooper1" -> "1"
      [] seg = "Sooper2" -> "2"
      [] seg = "Sooper3" -> "3"
      [] seg = "Sooper4" -> "4"
      [] seg = "Sooper5" -> "5"
      [] OTHER -> ""

\* fmt.Sprintf("Sooper%d", id)
SooperSeg(id) ==
    CASE id = 0 -> "Sooper0"
      [] id = 1 -> "Sooper1"
      [] id = 2 -> "Sooper2"
      [] id = 3 -> "Sooper3"
      [] id = 4 -> "Sooper4"
      [] id = 5 -> "Sooper5"
      [] OTHER -> "Sooper?"

\* stripGainPathRegex: ^/strip/Sooper(\d+)/Gain/Gain%20\(dB\)$
\* FindStringSubmatch: the captured digits, or "" when the address does not match.
stripGainPathRegex(addr) ==
    IF /\ Len(addr) = 4
       /\ addr[1] = "strip"
       /\ SooperDigits(addr[2]) # ""
       /\ addr[3] = "Gain"
       /\ addr[4] = "Gain%20(dB)"
    THEN SooperDigits(addr[2])
    ELSE ""

GainAddr_Space(loopID) == <<"strip", SooperSeg(loopID), "Gain", "Gain (dB)">>

\* fmt.Sprintf("/strip/Sooper%d/Gain/Gain%%20(dB)", loopID)
GainAddr(loopID) == <<"strip", SooperSeg(loopID), "Gain", "Gain%20(dB)">>

\* The segment "update_<control>" of a reply path.
UpdateSeg(ctrl) ==
    CASE ctrl = "state" -> "update_state"
      [] ctrl = "next_state" -> "update_next_state"
      [] ctrl = "loop_pos" -> "update_loop_pos"
      [] ctrl = "in_peak_meter" -> "update_in_peak_meter"
      [] ctrl = "out_peak_meter" -> "update_out_peak_meter"
      [] ctrl = "wet" -> "update_wet"
      [] OTHER -> "update_"

\* Whether segment seg begins with the text "update_<ctrl>".
SegHasPrefix(seg, ctrl) ==
    \/ seg = UpdateSeg(ctrl)
    \/ ctrl = "wet" /\ seg = "update_wetness"
    \/ ctrl = "state" /\ seg = "update_state_debug"

\* strings.Contains(addr, "/update_<ctrl>"): every segment follows a "/".
AddrContains(addr, ctrl) ==
    \E k \in 1..Len(addr) : SegHasPrefix(addr[k], ctrl)

UpdateAddr_OneBased(loop, ctrl) == <<"sl", Itoa(loop + 1), UpdateSeg(ctrl)>>

\* fmt.Sprintf("/sl/%d/update_%s", loop, control)
UpdateAddr(loop, ctrl) == <<"sl", Itoa(loop), UpdateSeg(ctrl)>>

parseLoopIndex_Minus(addr) ==
    IF Len(addr) >= 2 /\ Atoi(addr[2]).ok THEN Atoi(addr[2]).n ELSE -1

\* parseLoopIndex: p := strings.Split(addr, "/"); p[2] parsed, else 0.
parseLoopIndex(addr) ==
    IF Len(addr) >= 2 /\ Atoi(addr[2]).ok THEN Atoi(addr[2]).n ELSE 0

\* -------------------------------------------------------- inbound dispatch

IsFloat(a) == a.t = "float32" \/ a.t = "float64"

apply_Accumulate(ctrl, rec, val) ==
    CASE ctrl = "state" -> [rec EXCEPT !.State = FloatToInt(val)]
      [] ctrl = "next_state" -> [rec EXCEPT !.NextState = FloatToInt(val)]
      [] ctrl = "loop_pos" -> [rec EXCEPT !.LoopPos = val]
      [] ctrl = "in_peak_meter" -> [rec EXCEPT !.InPeakMeter = val]
      [] ctrl = "out_peak_meter" -> [rec EXCEPT !.OutPeakMeter = val]
      [] ctrl = "wet" -> [rec EXCEPT !.Wet = @ + val]
      [] OTHER -> rec

\* The apply closures handleOSC passes to commonUpdate, by control name.
apply(ctrl, rec, val) ==
    CASE ctrl = "state" -> [rec EXCEPT !.State = FloatToInt(val)]
      [] ctrl = "next_state" -> [rec EXCEPT !.NextState = FloatToInt(val)]
      [] ctrl = "loop_pos" -> [rec EXCEPT !.LoopPos = val]
      [] ctrl = "in_peak_meter" -> [rec EXCEPT !.InPeakMeter = val]
      [] ctrl = "out_peak_meter" -> [rec EXCEPT !.OutPeakMeter = val]
      [] ctrl = "wet" -> [rec EXCEPT !.Wet = val]
      [] OTHER -> rec

SetField_Reset(ls, idx, ctrl, val) ==
    MapPut(ls, idx, apply(ctrl, ZeroLoopState, val))

\* getLoopState(idx).<field> = val
SetField(ls, idx, ctrl, val) ==
    LET ls1 == getLoopState(ls, idx)
    IN  [ls1 EXCEPT ![idx] = apply(ctrl, ls1[idx], val)]

commonUpdate_ExactlyThree(ls, msg, ctrl) ==
    LET loopIdx == parseLoopIndex(msg.addr)
    IN  IF Len(msg.args) # 3 THEN ls
        ELSE IF msg.args[1].t # "int32" \/ msg.args[1].i # loopIdx THEN ls
        ELSE IF msg.args[2].t # "string" \/ msg.args[2].s # ctrl THEN ls
        ELSE IF ~IsFloat(msg.args[3]) THEN ls
        ELSE SetField(ls, loopIdx, ctrl, ToFloat32(msg.args[3]))

commonUpdate_NoChecks(ls, msg, ctrl) ==
    IF Len(msg.args) >= 3 /\ IsFloat(msg.args[3])
    THEN SetField(ls, parseLoopIndex(msg.addr), ctrl, ToFloat32(msg.args[3]))
    ELSE ls

commonUpdate_CreateFirst(ls, msg, ctrl) ==
    LET loopIdx == parseLoopIndex(msg.addr)
        ls1 == getLoopState(ls, loopIdx)
    IN  IF Len(msg.args) < 3 THEN ls1
        ELSE IF msg.args[1].t # "int32" \/ msg.args[1].i # loopIdx THEN ls1
        ELSE IF msg.args[2].t # "string" \/ msg.args[2].s # ctrl THEN ls1
        ELSE IF ~IsFloat(msg.args[3]) THEN ls1
        ELSE SetField(ls1, loopIdx, ctrl, ToFloat32(msg.args[3]))

\* commonUpdate: the store after the call.
commonUpdate(ls, msg, ctrl) ==
    LET loopIdx == parseLoopIndex(msg.addr)
    IN  IF Len(msg.args) < 3 THEN ls
        ELSE IF msg.args[1].t # "int32" \/ msg.args[1].i # loopIdx THEN ls
        ELSE IF msg.args[2].t # "string" \/ msg.args[2].s # ctrl THEN ls
        ELSE IF ~IsFloat(msg.args[3]) THEN ls
        ELSE SetField(ls, loopIdx, ctrl, ToFloat32(msg.args[3]))

handleStripGain_KeepLocal(ls, msg) ==
    LET id == Atoi(stripGainPathRegex(msg.addr)).n
        idx == id - 1
    IN  IF idx >= 0 /\ Len(msg.args) = 1 /\ IsFloat(msg.args[1]) /\ ~HasEntry(ls, idx)
        THEN SetField(ls, idx, "wet", ToFloat32(msg.args[1]))
        ELSE ls

handleStripGain_ZeroBased(ls, msg) ==
    LET idx == Atoi(stripGainPathRegex(msg.addr)).n
    IN  IF idx >= 0 /\ Len(msg.args) = 1 /\ IsFloat(msg.args[1])
        THEN SetField(ls, idx, "wet", ToFloat32(msg.args[1]))
        ELSE ls

\* The stripGainPathRegex case of handleOSC: the store after it.
handleStripGain(ls, msg) ==
    LET id == Atoi(stripGainPathRegex(msg.addr)).n
        idx == id - 1
    IN  IF idx >= 0 /\ Len(msg.args) = 1 /\ IsFloat(msg.args[1])
        THEN SetField(ls, idx, "wet", ToFloat32(msg.args[1]))
        ELSE ls

handlePong_Second(lc, msg) ==
    IF Len(msg.args) >= 2 /\ msg.args[2].t = "int32" THEN msg.args[2].i ELSE lc

handlePong_PositiveOnly(lc, msg) ==
    IF Len(msg.args) >= 3 /\ msg.args[3].t = "int32" /\ msg.args[3].i > 0
    THEN msg.args[3].i ELSE lc

\* The "/pong" case of handleOSC: loopCount after it.
handlePong(lc, msg) ==
    IF Len(msg.args) >= 3 /\ msg.args[3].t = "int32" THEN msg.args[3].i ELSE lc

\* The order of the strings.Contains cases of handleOSC.
CtrlOrder == <<"state", "next_state", "loop_pos", "in_peak_meter", "out_peak_meter", "wet">>

Ctrl == {CtrlOrder[k] : k \in 1..Len(CtrlOrder)}

\* The control of the first strings.Contains case the address satisfies, or "".
MatchedCtrl(addr) ==
    IF \E k \in 1..Len(CtrlOrder) : AddrContains(addr, CtrlOrder[k])
    THEN CtrlOrder[CHOOSE k \in 1..Len(CtrlOrder) :
                     /\ AddrContains(addr, CtrlOrder[k])
                     /\ \A j \in 1..(k - 1) : ~AddrContains(addr, CtrlOrder[j])]
    ELSE ""

handleOSC_PongPrune(s, msg) ==
    IF stripGainPathRegex(msg.addr) # ""
    THEN [loopStates |-> handleStripGain(s.loopStates, msg), loopCount |-> s.loopCount]
    ELSE IF msg.addr = <<"pong">>
    THEN LET lc == handlePong(s.loopCount, msg)
         IN  [loopStates |-> [i \in {j \in DOMAIN s.loopStates : j < lc} |-> s.loopStates[i]],
              loopCount |-> lc]
    ELSE IF MatchedCtrl(msg.addr) # ""
    THEN [loopStates |-> commonUpdate(s.loopStates, msg, MatchedCtrl(msg.addr)),
          loopCount |-> s.loopCount]
    ELSE s

handleOSC_GrowCount(s, msg) ==
    IF stripGainPathRegex(msg.addr) # ""
    THEN [loopStates |-> handleStripGain(s.loopStates, msg), loopCount |-> s.loopCount]
    ELSE IF msg.addr = <<"pong">>
    THEN [loopStates |-> s.loopStates, loopCount |-> handlePong(s.loopCount, msg)]
    ELSE IF MatchedCtrl(msg.addr) # ""
    THEN [loopStates |-> commonUpdate(s.loopStates, msg, MatchedCtrl(msg.addr)),
          loopCount |-> IF parseLoopIndex(msg.addr) >= s.loopCount
                        THEN parseLoopIndex(msg.addr) + 1 ELSE s.loopCount]
    ELSE s

handleOSC_DefaultCase(s, msg) ==
    IF stripGainPathRegex(msg.addr) # ""
    THEN [loopStates |-> handleStripGain(s.loopStates, msg), loopCount |-> s.loopCount]
    ELSE IF msg.addr = <<"pong">>
    THEN [loopStates |-> s.loopStates, loopCount |-> handlePong(s.loopCount, msg)]
    ELSE IF MatchedCtrl(msg.addr) # ""
    THEN [loopStates |-> commonUpdate(s.loopStates, msg, MatchedCtrl(msg.addr)),
          loopCount |-> s.loopCount]
    ELSE [loopStates |-> getLoopState(s.loopStates, parseLoopIndex(msg.addr)),
          loopCount |-> s.loopCount]

\* handleOSC: store and loopCount after the handler returns.
handleOSC(s, msg) ==
    IF stripGainPathRegex(msg.addr) # ""
    THEN [loopStates |-> handleStripGain(s.loopStates, msg), loopCount |-> s.loopCount]
    ELSE IF msg.addr = <<"pong">>
    THEN [loopStates |-> s.loopStates, loopCount |-> handlePong(s.loopCount, msg)]
    ELSE IF MatchedCtrl(msg.addr) # ""
    THEN [loopStates |-> commonUpdate(s.loopStates, msg, MatchedCtrl(msg.addr)),
          loopCount |-> s.loopCount]
    ELSE s

\* ------------------------------------------------------- pointer-to-gain map

\* float32(relX) / float32(cellContentWidth), or 0 for a zero width; in 1/Unit.
RawFill_NoGuard(relX, width) ==
    IF width > 0 THEN (2 * relX * Unit + width) \div (2 * width) ELSE relX * Unit

RawFill(relX, width) ==
    IF width > 0 THEN (2 * relX * Unit + width) \div (2 * width) ELSE 0

ClampFill_UpperOnly(fill) == IF fill > Unit THEN Unit ELSE fill

\* fill after the two clamps to [0, 1].
ClampFill(fill) == IF fill < 0 THEN 0 ELSE IF fill > Unit THEN Unit ELSE fill

WetOfFill_NoClamp(fill) == (2 * fill * MaxWet + Unit) \div (2 * Unit)

\* wet := fill * maxWet; if wet > maxWet { wet = maxWet }
WetOfFill(fill) ==
    LET wet == (2 * ClampFill(fill) * MaxWet + Unit) \div (2 * Unit)
    IN  IF wet > MaxWet THEN MaxWet ELSE wet

\* A pointer event as the callback sees it.
Ev(action, ok, row, col, relX, width) ==
    [action |-> action, ok |-> ok, row |-> row, col |-> col, relX |-> relX, width |-> width]

\* The early returns of the callback: whether the event reaches the gain code.
Accepted(ev, lc) ==
    /\ ev.action \in {"MouseLeftClick", "MouseLeftDown", "MouseMove"}
    /\ ev.ok /\ ev.row # 0
    /\ ev.col = LevelCol /\ ev.row <= lc

EchoWet_Create(ls, idx, wet) ==
    [i \in DOMAIN ls \cup {idx} |-> IF i = idx THEN [EntryOrZero(ls, idx) EXCEPT !.Wet = wet] ELSE ls[i]]

\* if loopStates[row-1] != nil { loopStates[row-1].Wet = wet }
EchoWet(ls, idx, wet) ==
    IF HasEntry(ls, idx) THEN [ls EXCEPT ![idx] = [@ EXCEPT !.Wet = wet]] ELSE ls

\* ------------------------------------------- pointer-to-gain map, dB version
\* The annotated copy of the program (src/unnamed/part_006) maps the pointer
\* fraction through a decibel transform: wet = 10^((fill*70 - 70)/20).  Its
\* numbers are fixed-point integers counted in 1/Micro, fine enough to tell
\* 10^(-3.5) from 0 and the transform's value at maxFill from 0.921.

\* fill = float32(mouseXrelative) / float32(cellContentWidth), else 0; in 1/Micro.
RawFillDB(relX, width) ==
    IF width > 0
    THEN (IF relX >= 0
          THEN (2 * relX * Micro + width) \div (2 * width)
          ELSE -((2 * (-relX) * Micro + width) \div (2 * width)))
    ELSE 0

\* if fill > maxFill { fill = maxFill }; if fill < 0 { fill = 0 }
ClampFillDB(fill) == IF fill > maxFill THEN maxFill ELSE IF fill < 0 THEN 0 ELSE fill

\* a * b for 0 <= a, b <= 1 in 1/Micro, rounded, in 32-bit steps.
MulMicro(a, b) ==
    (a * (b \div 1000) + 500) \div 1000 + (a * (b % 1000) + 500000) \div Micro

\* 10^(-d/10) and 10^(-d/100) for the digits d = 0..9, in 1/Micro.
Pow10Tenths ==
    <<1000000, 794328, 630957, 501187, 398107, 316228, 251189, 199526, 158489, 125893>>
Pow10Hundredths ==
    <<1000000, 977237, 954993, 933254, 912011, 891251, 870964, 851138, 831764, 812831>>

\* 10^(-r) for 0 <= r < 0.01: 1 - x + x^2/2 with x = r * ln 10.
Pow10Tail(r) ==
    LET x == (r * 23026 + 5000) \div 10000
    IN  Micro - x + (x * x + Micro) \div (2 * Micro)

Pow10_NoInteger(y) ==
    LET e == -y
    IN  MulMicro(MulMicro(Pow10Tenths[((e % Micro) \div 100000) + 1],
                          Pow10Hundredths[((e % 100000) \div 10000) + 1]),
                 Pow10Tail(e % 10000))

\* math.Pow(10, y) for -4 < y <= 0 (y and the result in 1/Micro), digit by
\* digit of -y: 10^-d0 * 10^-(d1/10) * 10^-(d2/100) * 10^-r.
Pow10(y) ==
    LET e == -y
        whole == CASE e \div Micro = 0 -> Micro
                   [] e \div Micro = 1 -> Micro \div 10
                   [] e \div Micro = 2 -> Micro \div 100
                   [] OTHER -> Micro \div 1000
    IN  MulMicro(MulMicro(MulMicro(whole, Pow10Tenths[((e % Micro) \div 100000) + 1]),
                          Pow10Hundredths[((e % 100000) \div 10000) + 1]),
                 Pow10Tail(e % 10000))

\* (fill*(maxDB-minDB)+minDB)/20.0, in 1/Micro; it is <= 0.
DbOfFill(fill, minDB, maxDB) ==
    -((-(fill * (maxDB - minDB) + minDB * Micro) + 10) \div 20)

\* (float64(fill)*(meterMaxDB-meterMinDB)+meterMinDB)/20.0
DbExponent(fill) == DbOfFill(fill, meterMinDB, meterMaxDB)

\* wet = float32(math.Pow(10, ...)) of the clamped fill, then the clamps of wet
\* to [0, maxWet]; in 1/Micro.
WetOfFillDB(fill) ==
    LET wet == Pow10(DbExponent(ClampFillDB(fill)))
    IN  IF wet > MaxWet * (Micro \div Unit) THEN MaxWet * (Micro \div Unit)
        ELSE IF wet < 0 THEN 0 ELSE wet

\* ------------------------------------------------------------- TUI helpers

containsInt_SkipLast(arr, v) == \E k \in 1..(Len(arr) - 1) : arr[k] = v

\* for _, x := range arr { if x == v { return true } } from position k on.
RECURSIVE containsIntFrom(_, _, _)
containsIntFrom(arr, v, k) ==
    IF k > Len(arr) THEN FALSE
    ELSE IF arr[k] = v THEN TRUE
    ELSE containsIntFrom(arr, v, k + 1)

\* containsInt(arr, v)
containsInt(arr, v) == containsIntFrom(arr, v, 1)

\* The least e in lo..hi with 10^(-e) <= val (e and val in 1/Micro), by bisection.
RECURSIVE Log10Search(_, _, _)
Log10Search(val, lo, hi) ==
    IF lo >= hi THEN lo
    ELSE LET mid == (lo + hi) \div 2
         IN  IF Pow10(-mid) <= val THEN Log10Search(val, lo, mid)
             ELSE Log10Search(val, mid + 1, hi)

\* math.Log10(val) for val > 0 (val and the result in 1/Micro): the argument
\* is scaled by tens into [0.1, 1], where the logarithm is found by bisection.
RECURSIVE Log10(_)
Log10(val) ==
    IF val > Micro THEN Micro + Log10(val \div 10)
    ELSE IF val < Micro \div 10 THEN Log10(val * 10) - Micro
    ELSE -Log10Search(val, 0, Micro)

amplitudeToMeterFill_NoUpperClamp(val, minDB, maxDB) ==
    IF val < 10 THEN 0
    ELSE LET db0 == 20 * Log10(val)
             db == IF db0 < minDB * Micro THEN minDB * Micro ELSE db0
         IN  (db - minDB * Micro) \div (maxDB - minDB)

\* amplitudeToMeterFill(val, minDB, maxDB): val and the result in 1/Micro,
\* minDB and maxDB in whole decibels; 0.00001 is 10/Micro.
amplitudeToMeterFill(val, minDB, maxDB) ==
    IF val < 10 THEN 0
    ELSE LET db0 == 20 * Log10(val)
             db1 == IF db0 < minDB * Micro THEN minDB * Micro ELSE db0
             db == IF db1 > maxDB * Micro THEN maxDB * Micro ELSE db1
         IN  (db - minDB * Micro) \div (maxDB - minDB)

\* ------------------------------------------------------------- render pass

\* The rows updateTable draws: for i < loopCount, the entry or a zero LoopState.
RenderRows(ls, lc) == [i \in 0..(lc - 1) |-> EntryOrZero(ls, i)]

\* --------------------------------------------------------- inbound messages

\* Values a reply carries for each control (1/Unit): a state code with a
\* fraction, the pending code -1, a position, meter peaks above 1, and gains
\* inside and outside the gain ceiling, one of them a float64 between two
\* float32 values.
CtrlVals(ctrl) ==
    CASE ctrl = "state" -> {F32(2 * Unit + Unit \div 2)}
      [] ctrl = "next_state" -> {F32(-Unit)}
      [] ctrl = "loop_pos" -> {F32(Unit \div 2)}
      [] ctrl = "in_peak_meter" -> {F32(Unit + Unit \div 2)}
      [] ctrl = "out_peak_meter" -> {F32(Unit \div 4)}
      [] ctrl = "wet" -> {F32(Unit \div 2), F32(Unit + Unit \div 2), F64(MaxWet, 1)}
      [] OTHER -> {}

\* One value per control, for the malformed shapes.
OneVal(ctrl) == CHOOSE v \in CtrlVals(ctrl) : v.t = "float32"

\* The control after ctrl in CtrlOrder (cyclically): a wrong control name.
OtherCtrl(ctrl) ==
    LET k == CHOOSE j \in 1..Len(CtrlOrder) : CtrlOrder[j] = ctrl
    IN  CtrlOrder[(k % Len(CtrlOrder)) + 1]

\* /sl/<addrIdx>/update_<addrCtrl> [argIdx, argCtrl, val]
UpdMsg(addrIdx, addrCtrl, argIdx, argCtrl, val) ==
    Msg(UpdateAddr(addrIdx, addrCtrl), <<Int32(argIdx), Str(argCtrl), val>>)

LoopIdx == 0..MaxIdx

\* Replies whose index and control agree with their address.
WellFormedUpdates ==
    UNION {{UpdMsg(i, c, i, c, v) : i \in LoopIdx, v \in CtrlVals(c)} : c \in Ctrl}

\* Replies for an index outside LoopIdx (one past the end, and -1).
FarUpdates ==
    {UpdMsg(i, c, i, c, OneVal(c)) : i \in {-1, MaxIdx + 1}, c \in {"state", "wet"}}

\* The index argument differs from the index in the address.
IndexMismatch ==
    {UpdMsg(i, c, j, c, OneVal(c)) : i \in LoopIdx, j \in LoopIdx, c \in Ctrl} \
        WellFormedUpdates

\* The control argument differs from the control the address names.
CtrlMismatch ==
    {UpdMsg(i, c, i, OtherCtrl(c), OneVal(c)) : i \in LoopIdx, c \in Ctrl}
        \cup {UpdMsg(0, c, 0, "bogus", OneVal(c)) : c \in {"wet"}}

\* Wrong arity or argument types, and one message with a fourth argument.
MalformedUpdates ==
    UNION {{Msg(UpdateAddr(0, c), <<Int32(0), Str(c)>>),
            Msg(UpdateAddr(0, c), <<>>),
            Msg(UpdateAddr(0, c), <<Str("0"), Str(c), OneVal(c)>>),
            Msg(UpdateAddr(0, c), <<Int32(0), Int32(0), OneVal(c)>>),
            Msg(UpdateAddr(0, c), <<Int32(0), Str(c), Int32(1)>>),
            Msg(UpdateAddr(0, c), <<Int32(0), Str(c), Str("1")>>),
            Msg(UpdateAddr(0, c), <<Int32(0), Str(c), OneVal(c), Str("extra")>>)}
           : c \in {"state", "wet"}}

\* Addresses whose second segment is missing or not a number, and an address
\* that only contains an update suffix as a prefix of a longer segment.
OddAddressUpdates ==
    {Msg(<<"sl", "x", "update_wet">>, <<Int32(i), Str("wet"), OneVal("wet")>>) : i \in LoopIdx}
        \cup {Msg(<<"update_wet">>, <<Int32(0), Str("wet"), OneVal("wet")>>),
              Msg(<<"sl", "1", "update_wetness">>, <<Int32(1), Str("wet"), OneVal("wet")>>),
              Msg(<<"sl", "x", "update_state">>, <<Int32(0), Str("wet"), OneVal("wet")>>),
              Msg(<<"sl", "", "update_wet">>, <<Int32(0), Str("wet"), Int32(1)>>)}

UpdateMsgs ==
    WellFormedUpdates \cup FarUpdates \cup IndexMismatch \cup CtrlMismatch
        \cup MalformedUpdates \cup OddAddressUpdates

\* Argument lists sent to a gain-control address.
GainArgs ==
    {<<F32((3 * Unit) \div 4)>>, <<F32(Unit + Unit \div 2)>>, <<F64(MaxWet, 1)>>,
     <<>>, <<F32(Unit \div 2), F32(Unit \div 2)>>, <<Int32(1)>>}

\* Gain-control messages for ids 0..MaxIdx+2, and two near misses of the pattern.
GainMsgs ==
    {Msg(GainAddr(k), a) : k \in 0..(MaxIdx + 2), a \in GainArgs}
        \cup {Msg(<<"strip", "Sooper1", "Gain", "Gain (dB)">>, <<F32(Unit \div 2)>>),
              Msg(<<"strip", "SooperX", "Gain", "Gain%20(dB)">>, <<F32(Unit \div 2)>>)}

\* Handshake replies: [returnURL, version, loopCount, ...] and short or mistyped ones.
PongMsgs ==
    {Msg(<<"pong">>, <<Str("url"), Str("1.7"), Int32(n)>>) : n \in -1..(MaxIdx + 1)}
        \cup {Msg(<<"pong">>, <<Str("url"), Str("1.7")>>),
              Msg(<<"pong">>, <<Str("url"), Int32(MaxIdx + 1)>>),
              Msg(<<"pong">>, <<Str("url"), Str("1.7"), F32(2 * Unit)>>),
              Msg(<<"pong">>, <<Str("url"), Str("1.7"), Int32(MaxIdx + 1), Str("x")>>)}

\* Addresses no case of handleOSC matches.
UnknownMsgs ==
    {Msg(<<"sl", "0", "get">>, <<Int32(0), Str("wet"), F32(Unit \div 2)>>),
     Msg(<<"ping">>, <<Str("url"), Str("/pong"), Int32(MaxIdx + 1)>>),
     Msg(<<"sl", "1", "set">>, <<Str("wet"), F32(Unit \div 2)>>),
     Msg(<<"pong", "2">>, <<Str("url"), Str("1.7"), Int32(MaxIdx + 1)>>),
     Msg(<<"sl", "1", "wet">>, <<F32(Unit \div 2)>>),
     Msg(<<>>, <<>>)}

Inbound == UpdateMsgs \cup GainMsgs \cup PongMsgs \cup UnknownMsgs

\* ------------------------------------------------------------ pointer events

MouseEvents ==
    {Ev("MouseLeftClick", TRUE, r, LevelCol, x, w) :
        r \in 1..(MaxIdx + 1), x \in -1..(MaxWidth + 1), w \in 0..MaxWidth}
        \cup {Ev(a, TRUE, 1, LevelCol, 1, 2) : a \in {"MouseLeftDown", "MouseMove", "MouseLeftUp"}}
        \cup {Ev("MouseLeftClick", FALSE, 1, LevelCol, 1, 2),
              Ev("MouseLeftClick", TRUE, 0, LevelCol, 1, 2),
              Ev("MouseLeftClick", TRUE, 1, LevelCol - 1, 1, 2)}

\* ------------------------------------------------------------ history values

NoMsg == Msg(<<>>, <<>>)
NoEv == Ev("", FALSE, 0, 0, 0, 0)
Op(kind, msg, ev) == [kind |-> kind, msg |-> msg, ev |-> ev]
Shared == [loopStates |-> loopStates, loopCount |-> loopCount]

\* ------------------------------------------------------------ engine values

\* The controls the poll goroutine asks for: two of the engine, one of the mock.
Polled == {"state", "next_state", "wet"}

\* The controls main registers for automatic updates.
Registered == {"loop_pos", "in_peak_meter", "out_peak_meter"}

\* The values the remote side holds for a polled control (1/Unit): state
\* codes are whole numbers and change; the gain is the constant 0.75 the mock
\* replies with.
EngineVals(ctrl) ==
    IF ctrl = "wet" THEN <<(3 * Unit) \div 4>> ELSE <<0, 2 * Unit>>

\* The remote values of loop 0 at start, and the number of times they changed.
EngineInit ==
    [vals |-> [c \in Polled |-> EngineVals(c)[1]], changes |-> 0]

\* ------------------------------------------------------------ mock endpoint
\* The OSC mock of src/mock_api.go, which mockClient sends to.

\* The mock's stripGainPathRegex: ^/strip/Sooper(\d+)/Gain/Gain%20\(dB\)$
\* FindStringSubmatch: the captured digits, or "" when the address does not match.
mockStripGainPathRegex(addr) ==
    IF /\ Len(addr) = 4
       /\ addr[1] = "strip"
       /\ SooperDigits(addr[2]) # ""
       /\ addr[3] = "Gain"
       /\ addr[4] = "Gain%20(dB)"
    THEN SooperDigits(addr[2])
    ELSE ""

\* var valueToReturn float32 = 0.75
valueToReturn == (3 * Unit) \div 4

\* strings.TrimPrefix(returnURL, "osc.udp://"), net.SplitHostPort and
\* strconv.Atoi(portStr) succeed: "url" stands for a URL of that form.
ReturnURLParses(s) == s = "url"

mockHandler_ReplyAlways(msg) ==
    IF mockStripGainPathRegex(msg.addr) # "" THEN {}
    ELSE IF msg.addr = <<"get_strip_gain">> /\ Len(msg.args) >= 1
    THEN {[to |-> "gui", msg |-> Msg(msg.args[Len(msg.args)].p, <<F32(valueToReturn)>>)]}
    ELSE {}

\* The mock's message handler: the replies it sends for message msg.
mockHandler(msg) ==
    IF mockStripGainPathRegex(msg.addr) # "" THEN {}
    ELSE IF msg.addr = <<"get_strip_gain">>
    THEN IF /\ Len(msg.args) = 3
            /\ msg.args[1].t = "int32"
            /\ msg.args[2].t = "string"
            /\ msg.args[3].t = "string"
            /\ ReturnURLParses(msg.args[2].s)
         THEN {[to |-> "gui", msg |-> Msg(msg.args[3].p, <<F32(valueToReturn)>>)]}
         ELSE {}
    ELSE {}

\* ------------------------------------------------------------------- tasks

NoTask == "none"

Tasks == {"main", "listener", "poll"}

\* ------------------------------------------------------------------ Spec
\* Whole handlers as single steps: each handler below runs with mu held from
\* its first access to its last, so its effect on the store is one step.

InitShared ==
    /\ net = {}
    /\ engine = EngineInit
    /\ loopStates = <<>>
    /\ loopCount = InitLoopCount
    /\ mu = NoTask
    /\ snapshot = <<>>
    /\ sent = <<>>
    /\ lastOp = Op("init", NoMsg, NoEv)
    /\ prev = [loopStates |-> <<>>, loopCount |-> InitLoopCount]
    /\ steps = 0

\* A call of a helper function with its arguments (SpecPure), and its result.
NoCall == [fn |-> "", arr |-> <<>>, v |-> 0, val |-> 0, minDB |-> 0, maxDB |-> 0]
NoRet == [done |-> FALSE, b |-> FALSE, f |-> 0]

\* Task-local variables: the loop counters i of the registration loop, of
\* updateTable and of the poll goroutine, the rows updateTable has drawn, the
\* pointer event and wet of the callback, the listener's message, whether
\* the callback's last mockClient.Send failed, and (history) the value of
\* loopCount that the first test of the current poll sweep read.
TmpInit ==
    [i |-> 0, rows |-> <<>>, ev |-> NoEv, wet |-> 0, msg |-> NoMsg, pi |-> 0,
     sendErr |-> FALSE, call |-> NoCall, ret |-> NoRet, sweepN |-> InitLoopCount]

Init ==
    /\ InitShared
    /\ pc = [t \in Tasks |-> "off"]
    /\ tmp = TmpInit

\* The listener hands message m to handleOSC, in a run of at most bound steps.
HandleOSCWithin(m, bound) ==
    /\ steps < bound
    /\ LET s == handleOSC(Shared, m)
       IN  /\ loopStates' = s.loopStates
           /\ loopCount' = s.loopCount
    /\ sent' = <<>>
    /\ lastOp' = Op("osc", m, NoEv)
    /\ prev' = Shared
    /\ steps' = steps + 1
    /\ UNCHANGED <<mu, pc, tmp, snapshot, net, engine>>

\* The listener hands message m to handleOSC.
HandleOSC(m) == HandleOSCWithin(m, MaxSteps)

\* The gain write the callback's goroutine sends to mockClient.
GainWrite(row, wet) == [to |-> "mock", msg |-> Msg(GainAddr(row), <<F32(wet)>>)]

MouseCapture_Rollback(ev) ==
    /\ steps < MaxSteps
    /\ IF Accepted(ev, loopCount)
       THEN LET wet == WetOfFill(RawFill(ev.relX, ev.width))
            IN  /\ \E err \in BOOLEAN :
                       /\ tmp' = [tmp EXCEPT !.sendErr = err]
                       /\ loopStates' =
                              IF err THEN loopStates
                              ELSE EchoWet(loopStates, ev.row - 1, wet)
                /\ sent' = <<GainWrite(ev.row, wet)>>
       ELSE /\ UNCHANGED <<loopStates, tmp>>
            /\ sent' = <<>>
    /\ lastOp' = Op("mouse", NoMsg, ev)
    /\ prev' = Shared
    /\ steps' = steps + 1
    /\ UNCHANGED <<loopCount, mu, pc, snapshot, net, engine>>

\* The SetMouseCapture callback on pointer event ev, with the goroutine it
\* starts: the send fails (err) or not, and the error is discarded; in a run
\* of at most bound steps.
MouseCaptureWithin(ev, bound) ==
    /\ steps < bound
    /\ IF Accepted(ev, loopCount)
       THEN LET wet == WetOfFill(RawFill(ev.relX, ev.width))
            IN  /\ loopStates' = EchoWet(loopStates, ev.row - 1, wet)
                /\ sent' = <<GainWrite(ev.row, wet)>>
                /\ \E err \in BOOLEAN : tmp' = [tmp EXCEPT !.sendErr = err]
       ELSE /\ UNCHANGED <<loopStates, tmp>>
            /\ sent' = <<>>
    /\ lastOp' = Op("mouse", NoMsg, ev)
    /\ prev' = Shared
    /\ steps' = steps + 1
    /\ UNCHANGED <<loopCount, mu, pc, snapshot, net, engine>>

\* The SetMouseCapture callback on pointer event ev.
MouseCapture(ev) == MouseCaptureWithin(ev, MaxSteps)

UpdateTableWithin_Create(bound) ==
    /\ steps < bound
    /\ snapshot' = RenderRows(loopStates, loopCount)
    /\ loopStates' =
           [i \in DOMAIN loopStates \cup 0..(loopCount - 1) |-> EntryOrZero(loopStates, i)]
    /\ sent' = <<>>
    /\ lastOp' = Op("render", NoMsg, NoEv)
    /\ prev' = Shared
    /\ steps' = steps + 1
    /\ UNCHANGED <<loopCount, mu, pc, tmp, net, engine>>

\* One run of updateTable, in a run of at most bound steps.
UpdateTableWithin(bound) ==
    /\ steps < bound
    /\ snapshot' = RenderRows(loopStates, loopCount)
    /\ sent' = <<>>
    /\ lastOp' = Op("render", NoMsg, NoEv)
    /\ prev' = Shared
    /\ steps' = steps + 1
    /\ UNCHANGED <<loopStates, loopCount, mu, pc, tmp, net, engine>>

\* One run of updateTable.
UpdateTable == UpdateTableWithin(MaxSteps)

Next ==
    \/ \E m \in Inbound : HandleOSC(m)
    \/ \E ev \in MouseEvents : MouseCapture(ev)
    \/ UpdateTable

Spec == Init /\ [][Next]_vars

\* ---------------------------------------------------- claims checked on Spec

Dispatched == lastOp.kind = "osc"

\* m is /sl/<i>/update_wet [i:int32, "wet", v:float]
IsUpdateWet(m, i) ==
    /\ m.addr = UpdateAddr(i, "wet")
    /\ Len(m.args) = 3
    /\ m.args[1] = Int32(i)
    /\ m.args[2] = Str("wet")
    /\ IsFloat(m.args[3])

\* The index a well-formed update_wet message names.
WetIndices == -1..(MaxIdx + 1)

\* C1: dispatching a well-formed update_wet message for loop i sets the gain of
\* loop i to the message's value (as a float32) and changes nothing else: the
\* other fields of loop i, every other loop and loopCount are as before.
C1_UpdateWetFrame ==
    \A i \in WetIndices :
        (Dispatched /\ IsUpdateWet(lastOp.msg, i)) =>
            /\ DOMAIN loopStates = DOMAIN prev.loopStates \cup {i}
            /\ loopStates[i] =
                   [EntryOrZero(prev.loopStates, i) EXCEPT !.Wet = ToFloat32(lastOp.msg.args[3])]
            /\ \A j \in DOMAIN loopStates \ {i} : loopStates[j] = prev.loopStates[j]
            /\ loopCount = prev.loopCount

\* An update_wet reached a loop whose entry already held a non-zero field, and
\* changed its gain.
C1_Witness ==
    \E i \in WetIndices :
        /\ Dispatched /\ IsUpdateWet(lastOp.msg, i)
        /\ HasEntry(prev.loopStates, i)
        /\ prev.loopStates[i] # ZeroLoopState
        /\ loopStates[i].Wet # prev.loopStates[i].Wet

\* C2: dispatching a message a second time changes nothing: from the state the
\* first dispatch left, handleOSC on the same message returns that state.
C2_Idempotent ==
    Dispatched => handleOSC(Shared, lastOp.msg) = Shared

\* A message was dispatched that changed the store or loopCount.
C2_Witness ==
    /\ Dispatched
    /\ Shared # prev
    /\ lastOp.msg \in WellFormedUpdates \cup GainMsgs \cup PongMsgs

\* The message went to a strings.Contains case of handleOSC.
IsPerControl(m) ==
    /\ stripGainPathRegex(m.addr) = ""
    /\ m.addr # <<"pong">>
    /\ MatchedCtrl(m.addr) # ""

\* The index argument is not the integer in the address.
IndexDiffers(m) ==
    Len(m.args) >= 1 /\ (m.args[1].t # "int32" \/ m.args[1].i # parseLoopIndex(m.addr))

\* The control argument is not the control the address names.
ControlDiffers(m) ==
    Len(m.args) >= 2 /\ (m.args[2].t # "string" \/ m.args[2].s # MatchedCtrl(m.addr))

\* C3: a per-control update whose index argument differs from the index in its
\* address, or whose control argument differs from the control its address
\* names, changes no field and creates no entry.
C3_MismatchNoOp ==
    (Dispatched /\ IsPerControl(lastOp.msg)
        /\ (IndexDiffers(lastOp.msg) \/ ControlDiffers(lastOp.msg)))
    => Shared = prev

\* A mismatched update with three well-typed arguments arrived at a store that
\* had no entry for the index its address names.
C3_Witness ==
    /\ Dispatched
    /\ lastOp.msg \in IndexMismatch \cup CtrlMismatch
    /\ ~HasEntry(loopStates, parseLoopIndex(lastOp.msg.addr))
    /\ DOMAIN loopStates # {}

\* C4: a pong with at least three arguments whose third is an integer n sets
\* loopCount to n; any other pong leaves loopCount unchanged; the store is
\* unchanged in both cases.
C4_Pong ==
    (Dispatched /\ lastOp.msg.addr = <<"pong">>) =>
        /\ loopStates = prev.loopStates
        /\ loopCount =
               IF Len(lastOp.msg.args) >= 3 /\ lastOp.msg.args[3].t = "int32"
               THEN lastOp.msg.args[3].i
               ELSE prev.loopCount

\* A pong changed loopCount while the store held an entry.
C4_Witness ==
    /\ Dispatched /\ lastOp.msg.addr = <<"pong">>
    /\ loopCount # prev.loopCount
    /\ DOMAIN loopStates # {}

InGainRange(x) == 0 <= x /\ x <= MaxWet

\* C8 as stated: every loop's gain lies in [0, 0.921] in every reachable state.
C8_AllGainsCapped ==
    \A i \in DOMAIN loopStates : InGainRange(loopStates[i].Wet)

\* The pointer event of the last operation reached the gain code.
Echoed == lastOp.kind = "mouse" /\ Accepted(lastOp.ev, prev.loopCount)

\* The message is a gain write for loop idx that handleOSC applies.
IsGainWrite(m, idx) ==
    \/ /\ m.addr = GainAddr(idx + 1)
       /\ Len(m.args) = 1 /\ IsFloat(m.args[1])
    \/ IsUpdateWet(m, idx)

\* The float argument of such a message.
GainArg(m) == m.args[Len(m.args)]

\* C8 amended: a gain written by the pointer mapper's local echo lies in
\* [0, 0.921]; a gain written by an inbound gain-control or update_wet message
\* is the received value (as a float32), whether or not it exceeds 0.921.
C8_EchoCappedInboundStored ==
    /\ (Echoed /\ HasEntry(prev.loopStates, lastOp.ev.row - 1)) =>
           InGainRange(loopStates[lastOp.ev.row - 1].Wet)
    /\ \A i \in 0..(MaxIdx + 1) :
           (Dispatched /\ IsGainWrite(lastOp.msg, i)) =>
               loopStates[i].Wet = ToFloat32(GainArg(lastOp.msg))

\* A local echo overwrote a gain above the ceiling that an inbound message had
\* stored.
C8_Witness ==
    /\ Echoed /\ HasEntry(prev.loopStates, lastOp.ev.row - 1)
    /\ ~InGainRange(prev.loopStates[lastOp.ev.row - 1].Wet)
    /\ loopStates[lastOp.ev.row - 1].Wet = MaxWet

\* The loop index a per-control update or gain-control message targets.
TargetIndex(m) ==
    IF stripGainPathRegex(m.addr) # ""
    THEN Atoi(stripGainPathRegex(m.addr)).n - 1
    ELSE parseLoopIndex(m.addr)

\* C9 as stated: a per-control update or gain-control message whose loop index
\* is outside 0..loopCount-1 when it is dispatched leaves the store unchanged.
C9_OutOfRangeDropped ==
    (Dispatched
        /\ (IsPerControl(lastOp.msg) \/ stripGainPathRegex(lastOp.msg.addr) # "")
        /\ TargetIndex(lastOp.msg) \notin 0..(prev.loopCount - 1))
    => loopStates = prev.loopStates

\* C10: for every pointer offset and cell width (fractions below 0 and above 1
\* included) the amplitude of an accepted pointer event, both the one echoed
\* into the store and the one sent in the gain write, lies in [0, 0.921].
C10_MapperRange ==
    Echoed =>
        /\ Len(sent) = 1
        /\ sent[1].msg.addr = GainAddr(lastOp.ev.row)
        /\ Len(sent[1].msg.args) = 1
        /\ sent[1].msg.args[1].t = "float32"
        /\ InGainRange(sent[1].msg.args[1].f)
        /\ HasEntry(loopStates, lastOp.ev.row - 1) =>
               loopStates[lastOp.ev.row - 1].Wet = sent[1].msg.args[1].f

\* A pointer event left of the cell (negative fraction) was echoed and sent.
C10_Witness ==
    /\ Echoed
    /\ lastOp.ev.relX < 0 /\ lastOp.ev.width > 0
    /\ HasEntry(loopStates, lastOp.ev.row - 1)
    /\ loopStates[lastOp.ev.row - 1].Wet = 0
    /\ prev.loopStates[lastOp.ev.row - 1].Wet # 0

\* The 1-based id in a gain-control address.
GainId(m) == Atoi(stripGainPathRegex(m.addr)).n

\* C14: a message whose address matches the gain-control pattern with id k >= 1
\* and exactly one float argument v sets the gain of index k-1 to v (as a
\* float32), creating the entry with every other field zero when it is absent
\* and leaving every other field and entry alone; with id 0, an argument count
\* other than one, or an argument that is not a float, the store is unchanged
\* and no entry is created.
C14_GainControl ==
    (Dispatched /\ stripGainPathRegex(lastOp.msg.addr) # "") =>
        LET k == GainId(lastOp.msg)
            args == lastOp.msg.args
        IN  /\ loopCount = prev.loopCount
            /\ IF k >= 1 /\ Len(args) = 1 /\ IsFloat(args[1])
               THEN loopStates =
                        MapPut(prev.loopStates, k - 1,
                               [EntryOrZero(prev.loopStates, k - 1)
                                   EXCEPT !.Wet = ToFloat32(args[1])])
               ELSE loopStates = prev.loopStates

\* A gain-control message created the entry of a loop at or beyond loopCount in
\* a store that already held another entry.
C14_Witness ==
    /\ Dispatched /\ stripGainPathRegex(lastOp.msg.addr) # ""
    /\ ~HasEntry(prev.loopStates, GainId(lastOp.msg) - 1)
    /\ HasEntry(loopStates, GainId(lastOp.msg) - 1)
    /\ loopStates[GainId(lastOp.msg) - 1].Wet # 0
    /\ GainId(lastOp.msg) - 1 >= loopCount
    /\ DOMAIN prev.loopStates # {}

\* A per-control update that fails a check of commonUpdate other than the
\* comparison of values: too few arguments, an index that is not an int32, a
\* control that is not a string, or a value that is not a float.
IsMalformed(m) ==
    /\ IsPerControl(m)
    /\ \/ Len(m.args) < 3
       \/ m.args[1].t # "int32"
       \/ m.args[2].t # "string"
       \/ ~IsFloat(m.args[3])

\* The field of a LoopState that the control names.
FieldOf(rec, ctrl) ==
    CASE ctrl = "state" -> rec.State
      [] ctrl = "next_state" -> rec.NextState
      [] ctrl = "loop_pos" -> rec.LoopPos
      [] ctrl = "in_peak_meter" -> rec.InPeakMeter
      [] ctrl = "out_peak_meter" -> rec.OutPeakMeter
      [] OTHER -> rec.Wet

\* The value a field holds after a valid update carrying the float32 v.
Stored(ctrl, v) == IF ctrl \in {"state", "next_state"} THEN FloatToInt(v) ELSE v

\* C15: a per-control update with fewer than three arguments, a non-integer
\* index, a non-string control or a non-float value leaves the store and
\* loopCount unchanged, and every valid update for any loop and control that
\* is dispatched next is still applied.
C15_MalformedDropped ==
    (Dispatched /\ IsMalformed(lastOp.msg)) =>
        /\ Shared = prev
        /\ \A w \in WellFormedUpdates :
               LET r == handleOSC(Shared, w)
                   i == w.args[1].i
                   c == w.args[2].s
               IN  /\ HasEntry(r.loopStates, i)
                   /\ FieldOf(r.loopStates[i], c) = Stored(c, ToFloat32(w.args[3]))
                   /\ r.loopCount = loopCount

\* A malformed update with three arguments named a loop without an entry,
\* after an earlier message had created another loop's entry.
C15_Witness ==
    /\ Dispatched /\ IsMalformed(lastOp.msg)
    /\ Len(lastOp.msg.args) >= 3
    /\ ~HasEntry(loopStates, parseLoopIndex(lastOp.msg.addr))
    /\ DOMAIN loopStates # {}

\* No case of the switch of handleOSC matches the address.
NoCaseMatches(m) ==
    /\ stripGainPathRegex(m.addr) = ""
    /\ m.addr # <<"pong">>
    /\ \A c \in Ctrl : ~AddrContains(m.addr, c)

\* C16: a message whose address is not the gain-control pattern, not the pong
\* address and contains none of the six update suffixes leaves the store and
\* loopCount unchanged, whatever its arguments.
C16_UnknownIgnored ==
    (Dispatched /\ NoCaseMatches(lastOp.msg)) => Shared = prev

\* A message with an unmatched address and well-typed arguments arrived at a
\* store that had no entry for the loop its address names.
C16_Witness ==
    /\ Dispatched /\ NoCaseMatches(lastOp.msg)
    /\ Len(lastOp.msg.args) >= 1
    /\ ~HasEntry(loopStates, parseLoopIndex(lastOp.msg.addr))
    /\ DOMAIN loopStates # {}

\* The amplitude of the gain write the callback handed to Send.
SentAmp == sent[1].msg.args[1].f

\* C17 as stated: after every accepted pointer event on the gain column of row
\* r the store's gain for index r-1 is the mapped amplitude when the handler
\* returns.
C17_EchoImmediate ==
    Echoed =>
        /\ HasEntry(loopStates, lastOp.ev.row - 1)
        /\ loopStates[lastOp.ev.row - 1].Wet = SentAmp

\* Only a gain-control message or a message of the update_wet case writes Wet.
WritesGain(m) == stripGainPathRegex(m.addr) # "" \/ MatchedCtrl(m.addr) = "wet"

\* C18: whether the send of the gain write fails or not, the store after the
\* callback is the store with the local echo applied, and a gain changes only
\* in a pointer callback or in the dispatch of an inbound gain message: a
\* render pass and every other message leave it as written.
C18_SendOutcomeIgnored ==
    /\ Echoed =>
           loopStates = EchoWet(prev.loopStates, lastOp.ev.row - 1, SentAmp)
    /\ \A i \in DOMAIN prev.loopStates :
           loopStates[i].Wet # prev.loopStates[i].Wet =>
               \/ Echoed /\ lastOp.ev.row - 1 = i
               \/ Dispatched /\ WritesGain(lastOp.msg)

\* The send failed after the echo had changed the gain of an existing entry.
C18_Witness ==
    /\ Echoed /\ tmp.sendErr
    /\ HasEntry(prev.loopStates, lastOp.ev.row - 1)
    /\ loopStates[lastOp.ev.row - 1].Wet # prev.loopStates[lastOp.ev.row - 1].Wet

\* C19: when the gain cell's width is zero the fraction is 0 whatever the
\* pointer offset, so the amplitude echoed and sent is the mapper's output for
\* fraction 0.
C19_ZeroWidth ==
    (Echoed /\ lastOp.ev.width = 0) =>
        /\ SentAmp = WetOfFill(0)
        /\ HasEntry(loopStates, lastOp.ev.row - 1) =>
               loopStates[lastOp.ev.row - 1].Wet = WetOfFill(0)

\* A pointer event with a positive offset in a zero-width cell overwrote a
\* non-zero gain.
C19_Witness ==
    /\ Echoed /\ lastOp.ev.width = 0 /\ lastOp.ev.relX > 0
    /\ HasEntry(prev.loopStates, lastOp.ev.row - 1)
    /\ prev.loopStates[lastOp.ev.row - 1].Wet # 0
    /\ loopStates[lastOp.ev.row - 1].Wet = 0

\* C24 as stated: a per-control update is applied only when its argument list
\* is exactly [index, control, value]: one with more than three arguments
\* leaves the store and loopCount unchanged.
C24_ExactlyThree ==
    (Dispatched /\ IsPerControl(lastOp.msg) /\ Len(lastOp.msg.args) > 3) =>
        Shared = prev

\* The message with only its first three arguments.
FirstThree(m) == Msg(m.addr, SubSeq(m.args, 1, 3))

\* C24: a per-control update is applied when its argument list begins with
\* [index, control, value]: with fewer than three arguments it is not applied,
\* and with more than three it is applied as the message of its first three
\* arguments is, the others being ignored.
C24_AtLeastThree ==
    (Dispatched /\ IsPerControl(lastOp.msg)) =>
        /\ Len(lastOp.msg.args) < 3 => Shared = prev
        /\ Len(lastOp.msg.args) > 3 => Shared = handleOSC(prev, FirstThree(lastOp.msg))

\* An update with a fourth argument was applied: it changed the store.
C24_Witness ==
    /\ Dispatched /\ IsPerControl(lastOp.msg)
    /\ Len(lastOp.msg.args) > 3
    /\ FirstThree(lastOp.msg) \in WellFormedUpdates
    /\ Shared # prev

\* What a message writes when it is dispatched: <<loop, field>> for a gain
\* message or a per-control update that passes every check, <<"ChannelCount">>
\* for a pong that carries a count, <<>> for a message that is not applied.
Target(m) ==
    IF stripGainPathRegex(m.addr) # ""
    THEN IF GainId(m) - 1 >= 0 /\ Len(m.args) = 1 /\ IsFloat(m.args[1])
         THEN <<GainId(m) - 1, "wet">> ELSE <<>>
    ELSE IF m.addr = <<"pong">>
    THEN IF Len(m.args) >= 3 /\ m.args[3].t = "int32" THEN <<"ChannelCount">> ELSE <<>>
    ELSE IF MatchedCtrl(m.addr) # ""
    THEN IF /\ Len(m.args) >= 3
            /\ m.args[1] = Int32(parseLoopIndex(m.addr))
            /\ m.args[2] = Str(MatchedCtrl(m.addr))
            /\ IsFloat(m.args[3])
         THEN <<parseLoopIndex(m.addr), MatchedCtrl(m.addr)>> ELSE <<>>
    ELSE <<>>

\* The inbound messages that are applied.
ValidInbound == {m \in Inbound : Target(m) # <<>>}

\* C25: two valid messages that write different (loop, field) pairs, or of
\* which one is a pong and the other writes a field, give the same store and
\* loopCount in either order: with m1 just dispatched from the state prev,
\* dispatching m2 now gives what dispatching m2 from prev and then m1 gives.
C25_OrderIndependent ==
    (Dispatched /\ Target(lastOp.msg) # <<>>) =>
        \A m2 \in ValidInbound :
            Target(m2) # Target(lastOp.msg) =>
                handleOSC(Shared, m2) = handleOSC(handleOSC(prev, m2), lastOp.msg)

\* A valid update created the entry of a loop, and a valid message for
\* another field of the same loop and a pong that changes loopCount can follow.
C25_Witness ==
    /\ Dispatched /\ Len(Target(lastOp.msg)) = 2
    /\ ~HasEntry(prev.loopStates, Target(lastOp.msg)[1])
    /\ DOMAIN prev.loopStates # {}
    /\ \E m2 \in ValidInbound :
           /\ Len(Target(m2)) = 2
           /\ Target(m2)[1] = Target(lastOp.msg)[1]
           /\ Target(m2)[2] # Target(lastOp.msg)[2]
           /\ handleOSC(Shared, m2) # Shared
    /\ \E m2 \in ValidInbound :
           Len(Target(m2)) = 1 /\ handleOSC(Shared, m2).loopCount # loopCount

Rendered == lastOp.kind = "render"

\* C27 as stated: after a render pass every loop index below loopCount has an
\* entry in the store.
C27_RenderCreatesEntry ==
    Rendered => \A i \in 0..(prev.loopCount - 1) : HasEntry(loopStates, i)

\* C27: a render pass leaves the store as it was, creating no entry: for a
\* loop index below loopCount without an entry it draws the row of an all-zero
\* LoopState, and for the others the row of the entry.
C27_RenderLeavesStore ==
    Rendered =>
        /\ loopStates = prev.loopStates
        /\ loopCount = prev.loopCount
        /\ DOMAIN snapshot = 0..(loopCount - 1)
        /\ \A i \in 0..(loopCount - 1) :
               snapshot[i] = IF HasEntry(loopStates, i) THEN loopStates[i] ELSE ZeroLoopState

\* A render pass drew a row for a loop without an entry while the store held
\* another loop's entry.
C27_Witness ==
    /\ Rendered
    /\ \E i \in 0..(loopCount - 1) : ~HasEntry(loopStates, i) /\ snapshot[i] = ZeroLoopState
    /\ DOMAIN loopStates # {}

\* ------------------------------------------------------------- SpecMapper
\* The fraction-to-amplitude computation of the pointer callback alone, in both
\* copies of the program: the initial state draws where the pointer is and how
\* wide the cell is, the one step computes what each copy sends.

\* Pointer positions: narrow cells, and cells wide enough for a fraction that
\* lies between maxFill and 1.
MapperEvents ==
    {Ev("MouseLeftClick", TRUE, 1, LevelCol, x, w) :
        x \in -1..(MaxCell + 1), w \in (0..MaxWidth) \cup {MaxCell - 1, MaxCell}}

\* The gain write of the dB copy: "/strip/Sooper%d/Gain/Gain (dB)" sent to client.
GainWriteDB(row, wet) ==
    [to |-> "engine",
     msg |-> Msg(<<"strip", SooperSeg(row), "Gain", "Gain (dB)">>, <<F32(wet)>>)]

InitMapper ==
    /\ InitShared
    /\ pc = [t \in Tasks |-> "off"]
    /\ tmp \in {[TmpInit EXCEPT !.ev = ev] : ev \in MapperEvents}

\* fill and wet of the callback for the drawn event: sent[1] is the write of
\* src/sooperGUI.go (amplitude in 1/Unit), sent[2] the write of the dB copy
\* (amplitude in 1/Micro).
MapPointer ==
    /\ steps = 0
    /\ sent' = <<GainWrite(tmp.ev.row, WetOfFill(RawFill(tmp.ev.relX, tmp.ev.width))),
                 GainWriteDB(tmp.ev.row, WetOfFillDB(RawFillDB(tmp.ev.relX, tmp.ev.width)))>>
    /\ lastOp' = Op("map", NoMsg, tmp.ev)
    /\ steps' = steps + 1
    /\ UNCHANGED <<loopStates, loopCount, mu, pc, tmp, snapshot, prev, net, engine>>

NextMapper == MapPointer

SpecMapper == InitMapper /\ [][NextMapper]_vars

\* ---------------------------------------------- claims checked on SpecMapper

Mapped == lastOp.kind = "map"

\* The amplitude src/sooperGUI.go sends (1/Unit) and the one the dB copy sends (1/Micro).
LinearAmp == sent[1].msg.args[1].f
DbAmp == sent[2].msg.args[1].f

\* The pointer is at fraction 0 of a cell that has a width.
AtFractionZero == Mapped /\ lastOp.ev.relX = 0 /\ lastOp.ev.width > 0

\* C11 as stated: the input mapper maps fraction 0 to amplitude 0, in whichever
\* copy of the program.
C11_ZeroToZero ==
    AtFractionZero => (LinearAmp = 0 /\ DbAmp = 0)

\* C11 amended: at fraction 0 the linear mapper of src/sooperGUI.go gives
\* amplitude 0, and the dB mapper gives 10^(meterMinDB/20) = 10^(-3.5), about
\* 0.000316, which is not 0.
C11_ZeroLinearFloorDB ==
    AtFractionZero => (LinearAmp = 0 /\ DbAmp = 316)

\* A pointer at the left edge of the widest cell was mapped.
C11_Witness ==
    AtFractionZero /\ lastOp.ev.width = MaxCell /\ Len(sent) = 2

\* The fraction is at or above the calibration ceiling maxFill.
AtOrAboveCeiling ==
    Mapped /\ RawFillDB(lastOp.ev.relX, lastOp.ev.width) >= maxFill

\* C12 as stated: for every fraction at or above the calibration ceiling the
\* mapper's amplitude is exactly 0.921.
C12_CeilingGivesMaxWet ==
    AtOrAboveCeiling => (LinearAmp = MaxWet /\ DbAmp = MaxWet * (Micro \div Unit))

\* --------------------------------------------------------------- SpecConc
\* The goroutines of main step by step.  "main" is the main goroutine: the
\* ping, the registration loop, the start of the poll goroutine, and then the
\* tview event loop, which runs updateTable and the pointer callback one at a
\* time.  "listener" is the OSC server, which calls handleOSC per message.
\* "poll" is the poll goroutine.  A task at pc value L is about to run the
\* statement L.

\* Messages the listener receives in SpecConc.
ConcInbound ==
    {UpdMsg(0, "wet", 0, "wet", F32(Unit \div 2)),
     UpdMsg(MaxIdx, "state", MaxIdx, "state", F32(2 * Unit + Unit \div 2)),
     Msg(GainAddr(1), <<F32((3 * Unit) \div 4)>>),
     Msg(<<"pong">>, <<Str("url"), Str("1.7"), Int32(MaxIdx + 1)>>),
     Msg(<<"pong">>, <<Str("url"), Str("1.7"), Int32(InitLoopCount)>>)}

\* Pointer events the event loop delivers in SpecConc.
ConcMouse ==
    {Ev("MouseLeftClick", TRUE, r, LevelCol, MaxWidth, MaxWidth) : r \in 1..(MaxIdx + 1)}

Lock_NoWait(t) == mu' = t

\* mu.Lock() by task t: blocks until the mutex is free.
Lock(t) == mu = NoTask /\ mu' = t

Unlock_Forget(t) == mu = t /\ mu' = mu

\* mu.Unlock() by task t.
Unlock(t) == mu = t /\ mu' = NoTask

Goto(t, label) == pc' = [pc EXCEPT ![t] = label]

\* Variables the step-by-step actions never change.
history == <<lastOp, prev, steps, net, engine>>

\* sendPing(client, returnURL)
PingMsg == [to |-> "engine", msg |-> Msg(<<"ping">>, <<Str("url"), PathArg(<<"pong">>)>>)]

\* registerAutoUpdate(client, loop, control, ...)
RegisterMsg(loop, ctrl) ==
    [to |-> "engine",
     msg |-> Msg(<<"sl", Itoa(loop), "register_auto_update">>,
                 <<Str(ctrl), Int32(100), Str("url"), PathArg(UpdateAddr(loop, ctrl))>>)]

\* pollControl(client, loop, control, ...)
PollMsg(loop, ctrl) ==
    [to |-> "engine",
     msg |-> Msg(<<"sl", Itoa(loop), "get">>,
                 <<Str(ctrl), Str("url"), PathArg(UpdateAddr(loop, ctrl))>>)]

\* pollStripGain(mockClient, loopID, ...)
PollGainMsg(loopID) ==
    [to |-> "mock",
     msg |-> Msg(<<"get_strip_gain">>,
                 <<Int32(loopID), Str("url"), PathArg(GainAddr(loopID))>>)]

InitConc ==
    /\ InitShared
    /\ pc = [t \in Tasks |->
                IF t = "main" THEN "ping" ELSE IF t = "listener" THEN "idle" ELSE "off"]
    /\ tmp = TmpInit

\* main: sendPing
Ping ==
    /\ pc["main"] = "ping"
    /\ sent' = <<PingMsg>>
    /\ tmp' = [tmp EXCEPT !.i = 0]
    /\ Goto("main", "reg_cond")
    /\ UNCHANGED <<loopStates, loopCount, mu, snapshot, history>>

\* main: the test i < loopCount of the registration loop (mu not held)
RegCond ==
    /\ pc["main"] = "reg_cond"
    /\ Goto("main", IF tmp.i < loopCount THEN "reg_send" ELSE "spawn")
    /\ sent' = <<>>
    /\ UNCHANGED <<loopStates, loopCount, mu, tmp, snapshot, history>>

RegSend_NoAdvance ==
    /\ pc["main"] = "reg_send"
    /\ sent' = <<RegisterMsg(tmp.i, "loop_pos"), RegisterMsg(tmp.i, "in_peak_meter"),
                 RegisterMsg(tmp.i, "out_peak_meter")>>
    /\ tmp' = tmp
    /\ Goto("main", "reg_cond")
    /\ UNCHANGED <<loopStates, loopCount, mu, snapshot, history>>

\* main: the three registerAutoUpdate calls of one iteration, and i++
RegSend ==
    /\ pc["main"] = "reg_send"
    /\ sent' = <<RegisterMsg(tmp.i, "loop_pos"), RegisterMsg(tmp.i, "in_peak_meter"),
                 RegisterMsg(tmp.i, "out_peak_meter")>>
    /\ tmp' = [tmp EXCEPT !.i = @ + 1]
    /\ Goto("main", "reg_cond")
    /\ UNCHANGED <<loopStates, loopCount, mu, snapshot, history>>

\* main: go func() { for { ... } }() starts the poll goroutine; main goes on to app.Run
SpawnPoll ==
    /\ pc["main"] = "spawn"
    /\ pc' = [pc EXCEPT !["main"] = "ui", !["poll"] = "poll_cond"]
    /\ tmp' = [tmp EXCEPT !.pi = 0]
    /\ sent' = <<>>
    /\ UNCHANGED <<loopStates, loopCount, mu, snapshot, history>>

\* poll: the test i < loopCount of the sweep (mu not held)
PollCond ==
    /\ pc["poll"] = "poll_cond"
    /\ Goto("poll", IF tmp.pi < loopCount THEN "poll_send" ELSE "poll_sleep")
    /\ tmp' = IF tmp.pi = 0 THEN [tmp EXCEPT !.sweepN = loopCount] ELSE tmp
    /\ sent' = <<>>
    /\ UNCHANGED <<loopStates, loopCount, mu, snapshot, history>>

\* poll: the polls of one iteration, and i++
PollSend ==
    /\ pc["poll"] = "poll_send"
    /\ sent' = <<PollMsg(tmp.pi, "state"), PollMsg(tmp.pi, "next_state"),
                 PollGainMsg(tmp.pi + 1)>>
    /\ tmp' = [tmp EXCEPT !.pi = @ + 1]
    /\ Goto("poll", "poll_cond")
    /\ UNCHANGED <<loopStates, loopCount, mu, snapshot, history>>

\* poll: time.Sleep, then the next sweep starts with i := 0
PollSleep ==
    /\ pc["poll"] = "poll_sleep"
    /\ tmp' = [tmp EXCEPT !.pi = 0, !.sweepN = InitLoopCount]
    /\ Goto("poll", "poll_cond")
    /\ sent' = <<>>
    /\ UNCHANGED <<loopStates, loopCount, mu, snapshot, history>>

\* listener: a message arrives and handleOSC is called
Receive(m) ==
    /\ pc["listener"] = "idle"
    /\ tmp' = [tmp EXCEPT !.msg = m]
    /\ Goto("listener", "h_lock")
    /\ sent' = <<>>
    /\ UNCHANGED <<loopStates, loopCount, mu, snapshot, history>>

\* listener: mu.Lock() in handleOSC
HandlerLock ==
    /\ pc["listener"] = "h_lock"
    /\ Lock("listener")
    /\ Goto("listener", "h_body")
    /\ sent' = <<>>
    /\ UNCHANGED <<loopStates, loopCount, tmp, snapshot, history>>

\* listener: the switch of handleOSC
HandlerBody ==
    /\ pc["listener"] = "h_body"
    /\ LET s == handleOSC(Shared, tmp.msg)
       IN  /\ loopStates' = s.loopStates
           /\ loopCount' = s.loopCount
    /\ Goto("listener", "h_unlock")
    /\ sent' = <<>>
    /\ UNCHANGED <<mu, tmp, snapshot, history>>

\* listener: the deferred mu.Unlock() of handleOSC
HandlerUnlock ==
    /\ pc["listener"] = "h_unlock"
    /\ Unlock("listener")
    /\ tmp' = [tmp EXCEPT !.msg = NoMsg]
    /\ Goto("listener", "idle")
    /\ sent' = <<>>
    /\ UNCHANGED <<loopStates, loopCount, snapshot, history>>

\* main: the event loop runs the queued updateTable
RenderStart ==
    /\ pc["main"] = "ui"
    /\ Goto("main", "ut_lock")
    /\ sent' = <<>>
    /\ UNCHANGED <<loopStates, loopCount, mu, tmp, snapshot, history>>

\* main: mu.Lock() in updateTable
RenderLock ==
    /\ pc["main"] = "ut_lock"
    /\ Lock("main")
    /\ tmp' = [tmp EXCEPT !.i = 0, !.rows = <<>>]
    /\ Goto("main", "ut_cond")
    /\ sent' = <<>>
    /\ UNCHANGED <<loopStates, loopCount, snapshot, history>>

\* main: the test i < loopCount of the row loop of updateTable
RenderCond ==
    /\ pc["main"] = "ut_cond"
    /\ Goto("main", IF tmp.i < loopCount THEN "ut_row" ELSE "ut_unlock")
    /\ sent' = <<>>
    /\ UNCHANGED <<loopStates, loopCount, mu, tmp, snapshot, history>>

\* main: ls := loopStates[i] (or a zero LoopState), the cells of row i+1, and i++
RenderRow ==
    /\ pc["main"] = "ut_row"
    /\ tmp' = [tmp EXCEPT !.rows = Append(@, EntryOrZero(loopStates, tmp.i)), !.i = @ + 1]
    /\ Goto("main", "ut_cond")
    /\ sent' = <<>>
    /\ UNCHANGED <<loopStates, loopCount, mu, snapshot, history>>

\* main: the deferred mu.Unlock() of updateTable; the table is then drawn
RenderUnlock ==
    /\ pc["main"] = "ut_unlock"
    /\ Unlock("main")
    /\ snapshot' = [k \in 0..(Len(tmp.rows) - 1) |-> tmp.rows[k + 1]]
    /\ tmp' = [tmp EXCEPT !.i = 0, !.rows = <<>>]
    /\ Goto("main", "ui")
    /\ sent' = <<>>
    /\ UNCHANGED <<loopStates, loopCount, history>>

\* main: the event loop calls the pointer callback with event ev
MouseStart(ev) ==
    /\ pc["main"] = "ui"
    /\ tmp' = [tmp EXCEPT !.ev = ev]
    /\ Goto("main", "mc_check")
    /\ sent' = <<>>
    /\ UNCHANGED <<loopStates, loopCount, mu, snapshot, history>>

\* main: the early returns of the callback (row > loopCount read without mu), and wet
MouseCheck ==
    /\ pc["main"] = "mc_check"
    /\ IF Accepted(tmp.ev, loopCount)
       THEN /\ tmp' = [tmp EXCEPT !.wet = WetOfFill(RawFill(tmp.ev.relX, tmp.ev.width))]
            /\ Goto("main", "mc_lock")
       ELSE /\ tmp' = [tmp EXCEPT !.ev = NoEv]
            /\ Goto("main", "ui")
    /\ sent' = <<>>
    /\ UNCHANGED <<loopStates, loopCount, mu, snapshot, history>>

\* main: mu.Lock() in the callback
MouseLock ==
    /\ pc["main"] = "mc_lock"
    /\ Lock("main")
    /\ Goto("main", "mc_echo")
    /\ sent' = <<>>
    /\ UNCHANGED <<loopStates, loopCount, tmp, snapshot, history>>

MouseEcho_SendInside ==
    /\ pc["main"] = "mc_echo"
    /\ loopStates' = EchoWet(loopStates, tmp.ev.row - 1, tmp.wet)
    /\ Goto("main", "mc_unlock")
    /\ sent' = <<GainWrite(tmp.ev.row, tmp.wet)>>
    /\ UNCHANGED <<loopCount, mu, tmp, snapshot, history>>

\* main: if loopStates[row-1] != nil { loopStates[row-1].Wet = wet }
MouseEcho ==
    /\ pc["main"] = "mc_echo"
    /\ loopStates' = EchoWet(loopStates, tmp.ev.row - 1, tmp.wet)
    /\ Goto("main", "mc_unlock")
    /\ sent' = <<>>
    /\ UNCHANGED <<loopCount, mu, tmp, snapshot, history>>

\* main: mu.Unlock() in the callback
MouseUnlock ==
    /\ pc["main"] = "mc_unlock"
    /\ Unlock("main")
    /\ Goto("main", "mc_send")
    /\ sent' = <<>>
    /\ UNCHANGED <<loopStates, loopCount, tmp, snapshot, history>>

\* main: go func(loopID, value) { _ = mockClient.Send(m) }(row, wet), and return;
\* the send fails or not
MouseSend ==
    /\ pc["main"] = "mc_send"
    /\ sent' = <<GainWrite(tmp.ev.row, tmp.wet)>>
    /\ \E err \in BOOLEAN : tmp' = [tmp EXCEPT !.ev = NoEv, !.wet = 0, !.sendErr = err]
    /\ Goto("main", "ui")
    /\ UNCHANGED <<loopStates, loopCount, mu, snapshot, history>>

NextConc ==
    \/ Ping \/ RegCond \/ RegSend \/ SpawnPoll
    \/ PollCond \/ PollSend \/ PollSleep
    \/ \E m \in ConcInbound : Receive(m)
    \/ HandlerLock \/ HandlerBody \/ HandlerUnlock
    \/ RenderStart \/ RenderLock \/ RenderCond \/ RenderRow \/ RenderUnlock
    \/ \E ev \in ConcMouse : MouseStart(ev)
    \/ MouseCheck \/ MouseLock \/ MouseEcho \/ MouseUnlock \/ MouseSend

SpecConc == InitConc /\ [][NextConc]_vars

\* ------------------------------------------------ claims checked on SpecConc

\* The rows a render pass has drawn so far, as a function on 0..n-1.
RowsDrawn == [k \in 0..(Len(tmp.rows) - 1) |-> tmp.rows[k + 1]]

\* C5: a render pass never shows a partially applied update.  While updateTable
\* runs, the rows it has drawn are the current store's rows, and when it
\* finishes the rows are the whole store as it stands with no dispatch under
\* way: the listener is not between its Lock and its Unlock.
C5_SnapshotNotTorn ==
    /\ pc["main"] \in {"ut_cond", "ut_row", "ut_unlock"} =>
           /\ Len(tmp.rows) = tmp.i
           /\ \A k \in 0..(tmp.i - 1) : RowsDrawn[k] = EntryOrZero(loopStates, k)
           /\ pc["listener"] \notin {"h_body", "h_unlock"}
    /\ pc["main"] = "ut_unlock" => RowsDrawn = RenderRows(loopStates, loopCount)

\* A render pass finished two rows, each changed by a dispatch, while the
\* listener waits for mu with a further message.
C5_Witness ==
    /\ pc["main"] = "ut_unlock"
    /\ pc["listener"] = "h_lock"
    /\ Len(tmp.rows) >= 2
    /\ tmp.rows[1].Wet # 0
    /\ \E k \in 2..Len(tmp.rows) : tmp.rows[k].State # 0

\* The statements that read or write a LoopState field.
StoreAccess == {"h_body", "ut_row", "mc_echo"}

\* C6: every read and write of a LoopState field by the dispatcher, the render
\* pass and the pointer mapper happens with mu held by the accessing task, and
\* no two tasks are at such an access at once.
C6_StoreUnderLock ==
    /\ \A t \in Tasks : pc[t] \in StoreAccess => mu = t
    /\ \A t, u \in Tasks : (pc[t] \in StoreAccess /\ pc[u] \in StoreAccess) => t = u

\* The mapper is at its echo while the listener waits for mu.
C6_Witness ==
    /\ pc["main"] = "mc_echo"
    /\ pc["listener"] = "h_lock"
    /\ HasEntry(loopStates, tmp.ev.row - 1)

\* The statements that read or write loopCount.
LoopCountAccess == {"reg_cond", "poll_cond", "ut_cond", "mc_check", "h_body"}

\* C7 as stated: every read and write of loopCount happens with mu held by the
\* accessing task.
C7_LoopCountUnderLock ==
    \A t \in Tasks : pc[t] \in LoopCountAccess => mu = t

\* C29 as stated: the loop indices polled in one sweep are exactly 0..N-1 for
\* the value N of loopCount read at the start of the sweep: every index the
\* sweep is about to poll is below N, and the sweep ends only after index N-1.
C29_SweepUsesOneCount ==
    /\ pc["poll"] = "poll_send" => tmp.pi < tmp.sweepN
    /\ pc["poll"] = "poll_sleep" => tmp.pi = tmp.sweepN

\* The positions of the register_auto_update messages in a sequence of sends.
Registrations(sq) ==
    {k \in 1..Len(sq) : Len(sq[k].msg.addr) = 3 /\ sq[k].msg.addr[3] = "register_auto_update"}

\* The labels of main before the event loop: the ping, the registration loop
\* and the start of the poll goroutine.
StartupLabels == {"ping", "reg_cond", "reg_send", "spawn"}

\* C30: register_auto_update messages are emitted only by the registration
\* loop at startup, after the ping and before the poll goroutine exists; only
\* for loop_pos, in_peak_meter and out_peak_meter; at most once per (loop,
\* control) pair: each iteration registers the loop of its index, with three
\* different controls, and moves to the next index, and startup is never
\* entered again; so a loop that a pong announces after startup gets none.
C30_RegisterOnlyAtStartup ==
    /\ [](Registrations(sent) # {} =>
             /\ pc["main"] = "reg_cond" /\ tmp.i >= 1
             /\ pc["poll"] = "off"
             /\ \A k \in Registrations(sent) :
                    /\ sent[k].msg.args[1].s \in {"loop_pos", "in_peak_meter", "out_peak_meter"}
                    /\ sent[k].msg.addr[2] = Itoa(tmp.i - 1)
                    /\ \A j \in Registrations(sent) \ {k} :
                           sent[j].msg.args[1] # sent[k].msg.args[1])
    /\ [](pc["main"] = "ping" => sent = <<>>)
    /\ [](pc["poll"] # "off" => pc["main"] \notin StartupLabels)
    /\ [][/\ pc["main"] \notin StartupLabels => pc'["main"] \notin StartupLabels
          /\ pc["main"] # "ping" => pc'["main"] # "ping"
          /\ Registrations(sent') # {} => pc["main"] = "reg_send" /\ tmp'.i = tmp.i + 1]_vars

\* The poll goroutine polls loop 1, which a pong announced after the
\* registration loop had ended at index 1: main is in its event loop and no
\* render pass has run yet.
C30_Witness ==
    /\ pc["main"] = "ui" /\ snapshot = <<>> /\ tmp.i = 1
    /\ loopCount = MaxIdx + 1
    /\ Len(sent) >= 1 /\ sent[1] = PollMsg(1, "state")

\* The task that sends message m: the poll goroutine sends the polls, main
\* the ping, the registrations and the gain writes.
Sender(m) ==
    IF m.msg.addr = <<"get_strip_gain">>
          \/ (Len(m.msg.addr) = 3 /\ m.msg.addr[3] = "get")
    THEN "poll" ELSE "main"

\* The positions of the gain writes in a sequence of sends.
GainWrites(sq) == {k \in 1..Len(sq) : stripGainPathRegex(sq[k].msg.addr) # ""}

\* C33: no outbound message is sent while its sender holds mu: the messages a
\* step has sent are never those of the task that holds the mutex, and a gain
\* write is sent only by the statement after the callback's mu.Unlock(), with
\* the mutex not held by main.
C33_NoSendUnderLock ==
    /\ [](\A k \in 1..Len(sent) : mu # Sender(sent[k]))
    /\ [](pc["main"] = "mc_send" => mu # "main")
    /\ [][GainWrites(sent') # {} =>
             /\ pc["main"] = "mc_send" /\ mu # "main" /\ mu' # "main"
             /\ sent' = <<GainWrite(tmp.ev.row, tmp.wet)>>]_vars
    /\ [][(pc'["main"] = "mc_send" /\ pc["main"] # "mc_send") =>
             (pc["main"] = "mc_unlock" /\ mu = "main" /\ mu' = NoTask)]_vars

\* The gain write of an echo that changed the store has been sent while the
\* listener holds mu for a dispatch and the poll goroutine is in a sweep.
C33_Witness ==
    /\ GainWrites(sent) # {}
    /\ mu = "listener" /\ pc["listener"] = "h_body"
    /\ pc["poll"] = "poll_send"
    /\ sent[1].msg.addr = GainAddr(1)
    /\ HasEntry(loopStates, 0)
    /\ loopStates[0].Wet = sent[1].msg.args[1].f
    /\ loopStates[0].Wet # 0

\* C37 as stated: when the callback writes its echo, the index it writes is
\* below loopCount.
C37_EchoIndexInRange ==
    (pc["main"] = "mc_echo" /\ HasEntry(loopStates, tmp.ev.row - 1)) =>
        tmp.ev.row - 1 < loopCount

\* The listener is running the switch of handleOSC on a pong message.
PongDispatch == pc["listener"] = "h_body" /\ tmp.msg.addr = <<"pong">>

\* C13: loopCount is 1 in the initial state and changes only in the step that
\* dispatches a pong message: the dispatch of any other message, the pointer
\* callback, a poll sweep, the registration loop and a render pass leave it
\* as it is.
C13_LoopCountOnlyByPong ==
    /\ loopCount = InitLoopCount
    /\ [][loopCount' # loopCount => PongDispatch]_vars

\* After a pong raised loopCount and a render pass drew the rows, a message
\* other than a pong has been dispatched while the poll goroutine is inside a
\* sweep and the next render pass waits for mu.
C13_Witness ==
    /\ loopCount # InitLoopCount
    /\ pc["listener"] = "h_unlock" /\ tmp.msg.addr # <<"pong">>
    /\ pc["poll"] = "poll_send" /\ tmp.pi >= 1
    /\ pc["main"] = "ut_lock" /\ 1 \in DOMAIN snapshot

\* --------------------------------------------------------------- SpecLive
\* The poll goroutine, the network, the remote side and the listener, with
\* loss: every datagram in flight may be dropped.  The poll goroutine never
\* stops (its loop has no exit), a request that is sent again and again is
\* delivered again and again, and so is its reply.  The pointer callback runs
\* whenever the user clicks.  The handlers are single steps, as in Spec.

\* The reply of the engine to /sl/<i>/get [control, returnURL, replyPath]:
\* replyPath [i, control, value].
EngineReply(req) ==
    [to |-> "gui",
     msg |-> Msg(req.msg.args[3].p,
                 <<Int32(Atoi(req.msg.addr[2]).n), req.msg.args[1],
                   F32(engine.vals[req.msg.args[1].s])>>)]

\* The reply of the mock to /get_strip_gain [loopID, returnURL, replyPath]:
\* replyPath [value].
MockReply(req) == CHOOSE r \in mockHandler(req.msg) : TRUE

\* The requests of one sweep iteration for loop i, by polled control.
PollRequest(i, ctrl) == IF ctrl = "wet" THEN PollGainMsg(i + 1) ELSE PollMsg(i, ctrl)

\* The pointer event of SpecLive: a click at the right edge of row 1.
LiveMouse == {Ev("MouseLeftClick", TRUE, 1, LevelCol, MaxWidth, MaxWidth)}

InitLive ==
    /\ InitShared
    /\ pc = [t \in Tasks |-> IF t = "poll" THEN "poll_cond" ELSE "off"]
    /\ tmp = TmpInit

LivePoll_AwaitReply ==
    /\ pc["poll"] = "poll_cond"
    /\ tmp.pi < loopCount
    /\ \A c \in Polled : PollRequest(tmp.pi, c) \notin net
    /\ net' = net \cup {PollRequest(tmp.pi, c) : c \in Polled}
    /\ tmp' = [tmp EXCEPT !.pi = @ + 1]
    /\ UNCHANGED <<loopStates, loopCount, mu, pc, snapshot, sent, lastOp, prev, steps, engine>>

\* poll: one iteration of the sweep (i < loopCount): the three polls, and i++
LivePoll ==
    /\ pc["poll"] = "poll_cond"
    /\ tmp.pi < loopCount
    /\ net' = net \cup {PollRequest(tmp.pi, c) : c \in Polled}
    /\ tmp' = [tmp EXCEPT !.pi = @ + 1]
    /\ UNCHANGED <<loopStates, loopCount, mu, pc, snapshot, sent, lastOp, prev, steps, engine>>

LiveSleep_Reregister ==
    /\ pc["poll"] = "poll_cond"
    /\ tmp.pi >= loopCount
    /\ tmp' = [tmp EXCEPT !.pi = 0]
    /\ net' = net \cup {RegisterMsg(l, c) : l \in 0..(loopCount - 1), c \in Registered}
    /\ UNCHANGED <<loopStates, loopCount, mu, pc, snapshot, sent, lastOp, prev, steps,
                   engine>>

\* poll: the sweep is over (i >= loopCount): time.Sleep, then i := 0
LiveSleep ==
    /\ pc["poll"] = "poll_cond"
    /\ tmp.pi >= loopCount
    /\ tmp' = [tmp EXCEPT !.pi = 0]
    /\ UNCHANGED <<loopStates, loopCount, mu, pc, snapshot, sent, lastOp, prev, steps,
                   net, engine>>

\* The network drops datagram m.
Lose(m) ==
    /\ m \in net
    /\ net' = net \ {m}
    /\ UNCHANGED <<loopStates, loopCount, mu, pc, tmp, snapshot, sent, lastOp, prev, steps,
                   engine>>

\* The remote side receives the poll of control c for loop 0 and replies.
RemoteReceive(c) ==
    /\ PollRequest(0, c) \in net
    /\ net' = (net \ {PollRequest(0, c)})
                  \cup {IF c = "wet" THEN MockReply(PollRequest(0, c))
                        ELSE EngineReply(PollRequest(0, c))}
    /\ UNCHANGED <<loopStates, loopCount, mu, pc, tmp, snapshot, sent, lastOp, prev, steps,
                   engine>>

\* The replies in flight that answer a poll of control c.
RepliesFor(c) ==
    {m \in net : m.to = "gui" /\
        m.msg.addr = (IF c = "wet" THEN GainAddr(1) ELSE UpdateAddr(0, c))}

\* The listener receives a reply for control c and handleOSC dispatches it.
GuiReceive(c) ==
    \E m \in RepliesFor(c) :
        /\ net' = net \ {m}
        /\ LET s == handleOSC(Shared, m.msg)
           IN  /\ loopStates' = s.loopStates
               /\ loopCount' = s.loopCount
        /\ UNCHANGED <<mu, pc, tmp, snapshot, sent, lastOp, prev, steps, engine>>

\* The remote value of control c changes to v.
RemoteChange(c, v) ==
    /\ engine.changes < MaxChanges
    /\ v # engine.vals[c]
    /\ engine' = [vals |-> [engine.vals EXCEPT ![c] = v], changes |-> engine.changes + 1]
    /\ UNCHANGED <<loopStates, loopCount, mu, pc, tmp, snapshot, sent, lastOp, prev, steps,
                   net>>

\* The pointer callback on event ev: the local echo; the gain write is handed
\* to Send, and the mock that receives it keeps no state.
LiveClick(ev) ==
    /\ Accepted(ev, loopCount)
    /\ loopStates' = EchoWet(loopStates, ev.row - 1, WetOfFill(RawFill(ev.relX, ev.width)))
    /\ sent' = <<GainWrite(ev.row, WetOfFill(RawFill(ev.relX, ev.width)))>>
    /\ UNCHANGED <<loopCount, mu, pc, tmp, snapshot, lastOp, prev, steps, net, engine>>

NextLive ==
    \/ LivePoll \/ LiveSleep
    \/ \E m \in net : Lose(m)
    \/ \E c \in Polled : RemoteReceive(c)
    \/ \E c \in Polled : GuiReceive(c)
    \/ \E c \in Polled : \E k \in 1..Len(EngineVals(c)) : RemoteChange(c, EngineVals(c)[k])
    \/ \E ev \in LiveMouse : LiveClick(ev)

\* The poll goroutine keeps running; loss is not permanent: a poll that is in
\* flight again and again is received again and again, and so is a reply.
FairLive ==
    /\ WF_vars(LivePoll) /\ WF_vars(LiveSleep)
    /\ \A c \in Polled : SF_vars(RemoteReceive(c)) /\ SF_vars(GuiReceive(c))

SpecLive == InitLive /\ [][NextLive]_vars /\ FairLive

\* ------------------------------------------------ claims checked on SpecLive

\* The local field of control c of loop 0 holds the remote value.
LocalEquals(c) ==
    /\ HasEntry(loopStates, 0)
    /\ FieldOf(loopStates[0], c) = Stored(c, engine.vals[c])

\* C20 as stated: once the remote value of a polled control stays constant and
\* polls and replies keep being delivered, the local field eventually equals
\* the remote value and remains equal.
C20_SelfHealing ==
    \A c \in Polled : <>[]LocalEquals(c)

\* C20 amended: state and next_state eventually equal the remote value and
\* remain equal; the gain equals the remote value again and again, and
\* remains equal from some point on unless pointer events on the gain cell
\* keep overwriting it.
C20_HealsUnlessClicked ==
    /\ <>[]LocalEquals("state")
    /\ <>[]LocalEquals("next_state")
    /\ []<>LocalEquals("wet")
    /\ ([]<><<\E ev \in LiveMouse : LiveClick(ev)>>_vars) \/ <>[]LocalEquals("wet")

\* After the remote state changed, every polled field holds the remote value
\* while an older reply is still in flight.
C20_Witness ==
    /\ engine.changes >= 1
    /\ engine.vals["state"] # EngineInit.vals["state"]
    /\ \A c \in Polled : LocalEquals(c)
    /\ \E m \in RepliesFor("state") : m.msg.args[3].f # engine.vals["state"]

\* --------------------------------------------------------------- SpecLock
\* The goroutines of SpecConc with the scheduler's fairness: a task that can
\* take its next step does take it, and a task waiting in mu.Lock() gets the
\* mutex when it is free again and again (sync.Mutex hands the lock to a
\* waiter that has waited long).  The listener receives a valid update, an
\* update whose index argument disagrees with its address and an update with
\* too few arguments, which leave commonUpdate by its early returns.

LockInbound ==
    {UpdMsg(0, "wet", 0, "wet", F32(Unit \div 2)),
     UpdMsg(0, "wet", 1, "wet", F32(Unit \div 2)),
     Msg(UpdateAddr(0, "wet"), <<Int32(0), Str("wet")>>)}

LockMouse == {Ev("MouseLeftClick", TRUE, 1, LevelCol, MaxWidth, MaxWidth)}

NextLock ==
    \/ Ping \/ RegCond \/ RegSend \/ SpawnPoll
    \/ PollCond \/ PollSend \/ PollSleep
    \/ \E m \in LockInbound : Receive(m)
    \/ HandlerLock \/ HandlerBody \/ HandlerUnlock
    \/ RenderStart \/ RenderLock \/ RenderCond \/ RenderRow \/ RenderUnlock
    \/ \E ev \in LockMouse : MouseStart(ev)
    \/ MouseCheck \/ MouseLock \/ MouseEcho \/ MouseUnlock \/ MouseSend

FairLock ==
    /\ WF_vars(HandlerBody) /\ WF_vars(HandlerUnlock)
    /\ WF_vars(RenderCond) /\ WF_vars(RenderRow) /\ WF_vars(RenderUnlock)
    /\ WF_vars(MouseEcho) /\ WF_vars(MouseUnlock)
    /\ SF_vars(HandlerLock) /\ SF_vars(RenderLock) /\ SF_vars(MouseLock)

SpecLock == InitConc /\ [][NextLock]_vars /\ FairLock

\* ------------------------------------------------ claims checked on SpecLock

\* The statements of task t between its mu.Lock() and its mu.Unlock().
Critical(t) ==
    IF t = "listener" THEN {"h_body", "h_unlock"}
    ELSE IF t = "main" THEN {"ut_cond", "ut_row", "ut_unlock", "mc_echo", "mc_unlock"}
    ELSE {}

\* C21: a task holds mu exactly while it is between its Lock and its Unlock,
\* so every acquisition by handleOSC (early returns of commonUpdate included),
\* updateTable and the pointer callback is followed by the release; some task
\* can always take a step; and every task waiting in mu.Lock() eventually
\* gets the mutex.
C21_LockReleased ==
    /\ [](\A t \in Tasks : mu = t <=> pc[t] \in Critical(t))
    /\ [](ENABLED NextLock)
    /\ (pc["listener"] = "h_lock") ~> (pc["listener"] = "h_body")
    /\ (pc["main"] = "ut_lock") ~> (pc["main"] = "ut_cond")
    /\ (pc["main"] = "mc_lock") ~> (pc["main"] = "mc_echo")
    /\ \A t \in Tasks : (mu = t) ~> (mu = NoTask)

\* The listener, holding mu for an update that commonUpdate rejects, is about
\* to release it while the render pass waits for mu.
C21_Witness ==
    /\ pc["listener"] = "h_unlock" /\ mu = "listener"
    /\ tmp.msg \in LockInbound /\ Len(tmp.msg.args) < 3
    /\ pc["main"] = "ut_lock"

\* --------------------------------------------------------------- SpecPure
\* The helper functions on their own: the initial state draws a call with its
\* arguments, the step makes the call and keeps what it returned.

\* Slices of at most MaxLen elements drawn from 1..MaxLen.
IntSlices == UNION {[1..n -> 1..MaxLen] : n \in 0..MaxLen}

\* Amplitudes (1/Micro): a sweep from 0 to 2.0, the values around the 0.00001
\* threshold, and the amplitudes of -80, -70, -60, -35, -30 and -20 dB.
Amplitudes ==
    {k * (Micro \div MaxAmp) : k \in 0..(2 * MaxAmp)}
        \cup {1, 9, 10, 11, 100, 316, 317, 1000, 1001, 17783, 31623, 100000, 99999}

\* The meter scales: the program's (meterMinDB, meterMaxDB) and the tests' (-60, -20).
Scales == {<<meterMinDB, meterMaxDB>>, <<-60, -20>>}

ContainsIntCalls ==
    {[fn |-> "containsInt", arr |-> a, v |-> x, val |-> 0, minDB |-> 0, maxDB |-> 0] :
        a \in IntSlices, x \in {1, 3, MaxLen + 1}}

MeterFillCalls ==
    {[fn |-> "amplitudeToMeterFill", arr |-> <<>>, v |-> 0, val |-> a,
      minDB |-> sc[1], maxDB |-> sc[2]] : a \in Amplitudes, sc \in Scales}

InitPure ==
    /\ InitShared
    /\ pc = [t \in Tasks |-> "off"]
    /\ tmp \in {[TmpInit EXCEPT !.call = c] : c \in ContainsIntCalls \cup MeterFillCalls}

CallContainsInt ==
    /\ tmp.call.fn = "containsInt" /\ ~tmp.ret.done
    /\ tmp' = [tmp EXCEPT !.ret = [done |-> TRUE, f |-> 0,
                                   b |-> containsInt(tmp.call.arr, tmp.call.v)]]
    /\ UNCHANGED <<loopStates, loopCount, mu, pc, snapshot, sent, lastOp, prev, steps,
                   net, engine>>

CallAmplitudeToMeterFill ==
    /\ tmp.call.fn = "amplitudeToMeterFill" /\ ~tmp.ret.done
    /\ tmp' = [tmp EXCEPT !.ret =
                  [done |-> TRUE, b |-> FALSE,
                   f |-> amplitudeToMeterFill(tmp.call.val, tmp.call.minDB, tmp.call.maxDB)]]
    /\ UNCHANGED <<loopStates, loopCount, mu, pc, snapshot, sent, lastOp, prev, steps,
                   net, engine>>

NextPure == CallContainsInt \/ CallAmplitudeToMeterFill

SpecPure == InitPure /\ [][NextPure]_vars

\* ------------------------------------------------ claims checked on SpecPure

Returned(fn) == tmp.call.fn = fn /\ tmp.ret.done

\* C22: containsInt(arr, v) is true exactly when some element of arr equals v,
\* for the empty slice, slices with duplicates, and a match in any position.
C22_ContainsInt ==
    Returned("containsInt") =>
        (tmp.ret.b <=> \E k \in 1..Len(tmp.call.arr) : tmp.call.arr[k] = tmp.call.v)

\* containsInt returned true for a slice of full length that holds v only in
\* its last position.
C22_Witness ==
    /\ Returned("containsInt") /\ tmp.ret.b
    /\ Len(tmp.call.arr) = MaxLen
    /\ tmp.call.arr[MaxLen] = tmp.call.v
    /\ \A k \in 1..(MaxLen - 1) : tmp.call.arr[k] # tmp.call.v

\* The amplitude of db decibels, 10^(db/20), in 1/Micro.
AmpOfDB(db) == Pow10((db * Micro) \div 20)

\* The amplitude at position fill (1/Micro) of the scale minDB..maxDB.
AmpOfFill(fill, minDB, maxDB) == Pow10(DbOfFill(fill, minDB, maxDB))

Near(a, b, tol) == a - b <= tol /\ b - a <= tol

\* C23: amplitudeToMeterFill returns a value in [0, 1]: 0 for an amplitude
\* below 0.00001 or at or below the amplitude of minDB, 1 for an amplitude at
\* or above the amplitude of maxDB, and in between the position whose decibel
\* value on the scale has the amplitude val; 0.5 at -35 dB on -70..0 and 0.75
\* at -30 dB on -60..-20 (here to within 0.00001).
C23_MeterFill ==
    Returned("amplitudeToMeterFill") =>
        LET val == tmp.call.val
            lo == tmp.call.minDB
            hi == tmp.call.maxDB
            r == tmp.ret.f
        IN  /\ 0 <= r /\ r <= Micro
            /\ (val < 10 \/ val <= AmpOfDB(lo)) => r = 0
            /\ val >= AmpOfDB(hi) => r = Micro
            /\ (val >= 10 /\ val > AmpOfDB(lo) /\ val < AmpOfDB(hi)) =>
                   Near(AmpOfFill(r, lo, hi), val, 5 + val \div 20000)
            /\ (val = 17783 /\ lo = -70 /\ hi = 0) => Near(r, Micro \div 2, 10)
            /\ (val = 31623 /\ lo = -60 /\ hi = -20) => Near(r, (3 * Micro) \div 4, 10)

\* The function returned a position strictly inside the scale.
C23_Witness ==
    /\ Returned("amplitudeToMeterFill")
    /\ tmp.call.val = 17783 /\ tmp.call.minDB = meterMinDB
    /\ tmp.ret.f > 0 /\ tmp.ret.f < Micro

\* -------------------------------------------------------------- SpecWrites
\* The writers of the fields of loops 0 and 1 in runs of MaxWrites steps:
\* inbound gain and update messages, pointer events on the gain column, and
\* render passes, each a whole handler as in Spec.

WriteInbound ==
    {Msg(GainAddr(1), <<F32((3 * Unit) \div 4)>>),
     Msg(GainAddr(1), <<F64(MaxWet, 1)>>),
     Msg(GainAddr(2), <<F32(Unit \div 4)>>),
     UpdMsg(0, "wet", 0, "wet", F32(Unit \div 2)),
     UpdMsg(0, "loop_pos", 0, "loop_pos", F32(Unit \div 2)),
     UpdMsg(0, "state", 0, "state", F32(2 * Unit + Unit \div 2)),
     UpdMsg(0, "wet", 1, "wet", F32(Unit \div 4)),
     Msg(<<"pong">>, <<Str("url"), Str("1.7"), Int32(2)>>)}

WriteMouse ==
    {Ev("MouseLeftClick", TRUE, r, LevelCol, x, MaxWidth) : r \in 1..2, x \in {1, MaxWidth}}

NextWrites ==
    \/ \E m \in WriteInbound : HandleOSCWithin(m, MaxWrites)
    \/ \E ev \in WriteMouse : MouseCaptureWithin(ev, MaxWrites)
    \/ UpdateTableWithin(MaxWrites)

SpecWrites == Init /\ [][NextWrites]_vars

\* ---------------------------------------------- claims checked on SpecWrites

\* The last step was a pointer event whose echo was written to the store.
EchoApplied == Echoed /\ HasEntry(prev.loopStates, lastOp.ev.row - 1)

\* The last step wrote field c of loop i.
Wrote(i, c) ==
    \/ Dispatched /\ Target(lastOp.msg) = <<i, c>>
    \/ EchoApplied /\ lastOp.ev.row - 1 = i /\ c = "wet"

\* The value the last step's write carried.
WrittenValue(c) ==
    IF Dispatched
    THEN Stored(c, ToFloat32(IF stripGainPathRegex(lastOp.msg.addr) # ""
                             THEN lastOp.msg.args[1] ELSE lastOp.msg.args[3]))
    ELSE SentAmp

\* C26: every step that writes a field of a loop, an inbound update or gain
\* message or a local echo, leaves the field holding the value it carried,
\* whatever was written before, and every other step leaves the field as it
\* was: after any interleaving the field holds the value of the write applied
\* last, and an inbound gain or update_wet message after a local echo replaces
\* the echoed value.
C26_LastWriteWins ==
    \A i \in 0..(MaxIdx + 1) : \A c \in Ctrl :
        IF Wrote(i, c)
        THEN HasEntry(loopStates, i) /\ FieldOf(loopStates[i], c) = WrittenValue(c)
        ELSE HasEntry(prev.loopStates, i) =>
                 /\ HasEntry(loopStates, i)
                 /\ FieldOf(loopStates[i], c) = FieldOf(prev.loopStates[i], c)

\* An inbound gain or update_wet message replaced a different value that a
\* local echo had written in the step before.
C26_Witness ==
    /\ Dispatched /\ Len(Target(lastOp.msg)) = 2 /\ Target(lastOp.msg)[2] = "wet"
    /\ LET i == Target(lastOp.msg)[1]
       IN  /\ HasEntry(prev.loopStates, i)
           /\ prev.loopStates[i].Wet \in {WetOfFill(RawFill(ev.relX, ev.width)) : ev \in WriteMouse}
           /\ prev.loopStates[i].Wet \notin
                  {ToFloat32(m.args[Len(m.args)]) : m \in {w \in WriteInbound : Len(Target(w)) = 2}}
           /\ loopStates[i].Wet # prev.loopStates[i].Wet

\* The reply path a request carries: its last argument.
ReplyPath(req) == req.msg.args[Len(req.msg.args)].p

\* The request main or the poll goroutine sends for control c of loop i.
RequestFor(i, c) == IF c \in Registered THEN RegisterMsg(i, c) ELSE PollMsg(i, c)

\* Store ls2 is store ls1 with field c of loop i set to v, the entry created
\* from zeros when absent, and nothing else changed.
SetsExactly(ls1, ls2, i, c, v) ==
    /\ DOMAIN ls2 = DOMAIN ls1 \cup {i}
    /\ FieldOf(ls2[i], c) = v
    /\ \A d \in Ctrl \ {c} : FieldOf(ls2[i], d) = FieldOf(EntryOrZero(ls1, i), d)
    /\ \A j \in DOMAIN ls1 \ {i} : ls2[j] = ls1[j]

\* C34: replies are routed by address and leading index alone.  In every
\* state, for every loop i and every polled or registered control c, a message
\* at the reply path embedded in the request for (i, c) with arguments
\* [i, c, v] sets exactly field c of loop i, and a single-float message at the
\* reply path of the gain poll for id i+1 sets exactly the gain of loop i;
\* loopCount is unchanged.
C34_RoutedByAddress ==
    \A i \in 0..(MaxIdx + 1) :
        /\ \A c \in Registered \cup {"state", "next_state"} : \A v \in CtrlVals(c) :
               LET r == handleOSC(Shared, Msg(ReplyPath(RequestFor(i, c)),
                                              <<Int32(i), Str(c), v>>))
               IN  /\ r.loopCount = loopCount
                   /\ SetsExactly(loopStates, r.loopStates, i, c, Stored(c, ToFloat32(v)))
        /\ \A v \in CtrlVals("wet") :
               LET r == handleOSC(Shared, Msg(ReplyPath(PollGainMsg(i + 1)), <<v>>))
               IN  /\ r.loopCount = loopCount
                   /\ SetsExactly(loopStates, r.loopStates, i, "wet", ToFloat32(v))

\* A message at the reply path of the poll of state of loop 0 was dispatched
\* to an entry whose gain and position were set: it set the state field.
C34_Witness ==
    /\ Dispatched
    /\ lastOp.msg.addr = ReplyPath(PollMsg(0, "state"))
    /\ HasEntry(prev.loopStates, 0)
    /\ prev.loopStates[0].Wet # 0 /\ prev.loopStates[0].LoopPos # 0
    /\ prev.loopStates[0].State = 0 /\ loopStates[0].State # 0

C36_MapperNeverAdds ==
    lastOp.kind = "mouse" =>
        /\ DOMAIN loopStates = DOMAIN prev.loopStates
        /\ (Echoed /\ ~HasEntry(prev.loopStates, lastOp.ev.row - 1)) =>
               /\ loopStates = prev.loopStates
               /\ sent = <<GainWrite(lastOp.ev.row,
                                     WetOfFill(RawFill(lastOp.ev.relX, lastOp.ev.width)))>>

C36_Witness ==
    /\ Echoed /\ lastOp.ev.row = 1
    /\ ~HasEntry(loopStates, 0) /\ HasEntry(loopStates, 1)
    /\ Len(sent) = 1 /\ sent[1].msg.addr = GainAddr(1)

\* ----------------------------------- claims checked on Spec: odd addresses

\* A per-control update whose address has no second segment or a second
\* segment that is not an integer.
OddIndex(m) ==
    /\ stripGainPathRegex(m.addr) = "" /\ m.addr # <<"pong">>
    /\ MatchedCtrl(m.addr) # ""
    /\ (Len(m.addr) < 2 \/ ~Atoi(m.addr[2]).ok)

\* C39: for such an address the address-derived index is 0.  The message sets
\* exactly the field of loop 0 named by its address when its index argument is
\* 0, its control name matches and its value is a float, and changes nothing
\* otherwise; loopCount is unchanged either way.
C39_OddAddressIsLoopZero ==
    (Dispatched /\ OddIndex(lastOp.msg)) =>
        LET m == lastOp.msg
            c == MatchedCtrl(m.addr)
        IN  /\ parseLoopIndex(m.addr) = 0
            /\ loopCount = prev.loopCount
            /\ IF /\ Len(m.args) >= 3
                  /\ m.args[1] = Int32(0) /\ m.args[2] = Str(c) /\ IsFloat(m.args[3])
               THEN SetsExactly(prev.loopStates, loopStates, 0, c,
                                Stored(c, ToFloat32(m.args[3])))
               ELSE loopStates = prev.loopStates

\* An update at /sl/x/update_wet with index argument 0 created the entry of
\* loop 0 next to an entry of loop 1.
C39_Witness ==
    /\ Dispatched /\ OddIndex(lastOp.msg)
    /\ lastOp.msg.addr = <<"sl", "x", "update_wet">>
    /\ ~HasEntry(prev.loopStates, 0) /\ HasEntry(prev.loopStates, 1)
    /\ HasEntry(loopStates, 0) /\ loopStates[0].Wet = ToFloat32(lastOp.msg.args[3])

\* ------------------------------------- claims checked on Spec: store lifetime

\* C28: the set of loop indices with an entry only grows: a step of a
\* dispatch, pointer event or render pass, a pong that lowers loopCount
\* included, keeps every entry, and changes no field of it other than the one
\* field the step writes.
C28_EntriesOnlyGrow ==
    \A i \in DOMAIN prev.loopStates :
        /\ HasEntry(loopStates, i)
        /\ \A c \in Ctrl :
               FieldOf(loopStates[i], c) # FieldOf(prev.loopStates[i], c) => Wrote(i, c)

\* A pong lowered loopCount to or below the index of an entry with a non-zero
\* field.
C28_Witness ==
    /\ Dispatched /\ Target(lastOp.msg) = <<"ChannelCount">>
    /\ loopCount < prev.loopCount
    /\ \E i \in DOMAIN loopStates :
           i >= loopCount /\ i < prev.loopCount /\ loopStates[i] # ZeroLoopState

\* ------------------------------------------------------------- SpecCadence
\* Startup and the poll goroutine with the datagrams they emit in flight:
\* main pings, registers every loop below loopCount and starts the poll
\* goroutine, which sweeps for ever.  Every datagram may be lost.  A pong may
\* or may not arrive; nothing else is delivered, so nothing the tasks do
\* depends on a reply.

\* The pong the engine may answer the ping with: it announces two loops.
CadencePong == Msg(<<"pong">>, <<Str("url"), Str("1.7"), Int32(2)>>)

InitCadence ==
    /\ InitShared
    /\ pc = [t \in Tasks |-> IF t = "main" THEN "ping" ELSE "off"]
    /\ tmp = TmpInit

\* main: sendPing
CadencePing ==
    /\ pc["main"] = "ping"
    /\ net' = net \cup {PingMsg}
    /\ tmp' = [tmp EXCEPT !.i = 0]
    /\ Goto("main", "reg_cond")
    /\ UNCHANGED <<loopStates, loopCount, mu, snapshot, sent, lastOp, prev, steps, engine>>

\* main: one iteration of the registration loop (i < loopCount): the three
\* registerAutoUpdate calls, and i++
CadenceRegister ==
    /\ pc["main"] = "reg_cond"
    /\ tmp.i < loopCount
    /\ net' = net \cup {RegisterMsg(tmp.i, c) : c \in Registered}
    /\ tmp' = [tmp EXCEPT !.i = @ + 1]
    /\ UNCHANGED <<loopStates, loopCount, mu, pc, snapshot, sent, lastOp, prev, steps, engine>>

\* main: the registration loop is over (i >= loopCount); the go statement
\* starts the poll goroutine and main goes on to the event loop
CadenceSpawn ==
    /\ pc["main"] = "reg_cond"
    /\ tmp.i >= loopCount
    /\ pc' = [pc EXCEPT !["main"] = "ui", !["poll"] = "poll_cond"]
    /\ tmp' = [tmp EXCEPT !.pi = 0]
    /\ UNCHANGED <<loopStates, loopCount, mu, snapshot, sent, lastOp, prev, steps, net, engine>>

\* listener: the pong arrives and handleOSC dispatches it
CadencePongArrives ==
    /\ LET s == handleOSC(Shared, CadencePong)
       IN  /\ loopStates' = s.loopStates
           /\ loopCount' = s.loopCount
    /\ loopCount' # loopCount
    /\ UNCHANGED <<mu, pc, tmp, snapshot, sent, lastOp, prev, steps, net, engine>>

NextCadence ==
    \/ CadencePing \/ CadenceRegister \/ CadenceSpawn
    \/ LivePoll \/ LiveSleep
    \/ \E m \in net : Lose(m)
    \/ CadencePongArrives

\* main and the poll goroutine keep running: no statement of theirs blocks.
FairCadence ==
    /\ WF_vars(CadencePing) /\ WF_vars(CadenceRegister) /\ WF_vars(CadenceSpawn)
    /\ WF_vars(LivePoll) /\ WF_vars(LiveSleep)

SpecCadence == InitCadence /\ [][NextCadence]_vars /\ FairCadence

\* ---------------------------------------------- claims checked on SpecCadence

\* The registrations of loop l have been emitted: the registration loop has
\* passed index l (main keeps its loop counter when it goes on to "ui").
RegEmitted(l) == pc["main"] \in {"reg_cond", "ui"} /\ l < tmp.i

\* The registration of control c of loop l was emitted and its datagram lost.
RegLost(l, c) == RegEmitted(l) /\ RegisterMsg(l, c) \notin net

\* C31 as stated: a registration that was lost is emitted again later.
C31_RegistrationRetried ==
    \A l \in 0..1 : \A c \in Registered :
        RegLost(l, c) ~> (RegisterMsg(l, c) \in net)

\* C31: a registration that was lost is never emitted again, while the polls
\* of state, next_state and the gain are emitted again in every sweep: once
\* the datagram of a registration is lost it is never in flight again, and
\* the polls of loop 0 are in flight again and again.
C31_OnlyPollsRetried ==
    /\ \A l \in 0..1 : \A c \in Registered :
           [](RegLost(l, c) => [](RegisterMsg(l, c) \notin net))
    /\ \A c \in Polled : []<>(PollRequest(0, c) \in net)
    /\ \A c \in Polled : []<><<LivePoll /\ tmp.pi = 0 /\ PollRequest(0, c) \in net'>>_vars

\* The registration of loop_pos of loop 0 is lost, and the poll goroutine has
\* since emitted the polls of loop 0, of which one is lost too.
C31_Witness ==
    /\ RegLost(0, "loop_pos")
    /\ pc["poll"] = "poll_cond" /\ tmp.pi >= 1
    /\ PollRequest(0, "state") \in net
    /\ PollRequest(0, "wet") \notin net

\* The datagrams n hold the three polls of loop i: a get for state and one for
\* next_state to the engine, and a gain poll for id i+1 to the mock.
PollsOf(n, i) ==
    /\ \A c \in {"state", "next_state"} :
           \E m \in n : /\ m.to = "engine"
                        /\ m.msg.addr = <<"sl", Itoa(i), "get">>
                        /\ m.msg.args[1] = Str(c)
    /\ \E m \in n : /\ m.to = "mock"
                    /\ m.msg.addr = <<"get_strip_gain">>
                    /\ m.msg.args[1] = Int32(i + 1)

\* C32: the poll goroutine never waits for a reply.  At its loop test one of
\* its two steps can always be taken; it completes sweep after sweep; an
\* iteration for index i runs only with i below loopCount and emits the three
\* polls of loop i; a sweep ends only at an index not below loopCount; and
\* the polls of every loop that stays below loopCount are emitted infinitely
\* often, whether or not any inbound message is ever delivered.
C32_PollNeverWaits ==
    /\ [](pc["poll"] = "poll_cond" => ENABLED (LivePoll \/ LiveSleep))
    /\ []<><<LiveSleep>>_vars
    /\ [][/\ tmp'.pi = tmp.pi + 1 => (tmp.pi < loopCount /\ PollsOf(net', tmp.pi))
          /\ (tmp.pi # 0 /\ tmp'.pi = 0) => tmp.pi >= loopCount]_vars
    /\ \A i \in 0..1 :
           (<>[](i < loopCount)) =>
               []<><<LivePoll /\ tmp.pi = i /\ PollsOf(net', i)>>_vars

\* The poll goroutine is in its second sweep at loop 1, which a pong announced,
\* and every datagram emitted so far has been lost.
C32_Witness ==
    /\ pc["poll"] = "poll_cond" /\ tmp.pi = 2
    /\ loopCount = 2
    /\ net = {PollRequest(1, c) : c \in Polled}
    /\ tmp.i = 1

\* ------------------------------------------------- the program, empty session
\* The tasks of SpecConc with an engine that announces no loops: the pongs
\* carry a count of 0, -1 or the initial count.

ZeroInbound ==
    {Msg(<<"pong">>, <<Str("url"), Str("1.7"), Int32(n)>>) : n \in {-1, 0, InitLoopCount}}
        \cup {UpdMsg(0, "wet", 0, "wet", F32(Unit \div 2))}

ZeroMouse == {Ev("MouseLeftClick", TRUE, 1, LevelCol, MaxWidth, MaxWidth)}

NextZero ==
    \/ Ping \/ RegCond \/ RegSend \/ SpawnPoll
    \/ PollCond \/ PollSend \/ PollSleep
    \/ \E m \in ZeroInbound : Receive(m)
    \/ HandlerLock \/ HandlerBody \/ HandlerUnlock
    \/ RenderStart \/ RenderLock \/ RenderCond \/ RenderRow \/ RenderUnlock
    \/ \E ev \in ZeroMouse : MouseStart(ev)
    \/ MouseCheck \/ MouseLock \/ MouseEcho \/ MouseUnlock \/ MouseSend

SpecZero == InitConc /\ [][NextZero]_vars

\* ------------------------------------------------ claims checked on SpecZero

\* The positions of the polls in a sequence of sends.
Polls(sq) ==
    {k \in 1..Len(sq) : Len(sq[k].msg.addr) >= 1
                          /\ sq[k].msg.addr[Len(sq[k].msg.addr)] \in {"get", "get_strip_gain"}}

\* C38: a pong whose third argument is zero or negative is applied like any
\* other, and while the count stays there the program shows and polls nothing.
\* The pong case sets loopCount to the int32 it carries, whatever its sign; a
\* sweep whose first test read a count of zero or less goes to its sleep
\* without a poll, so every poll is emitted by a sweep that read a positive
\* count; a render pass that runs under such a count draws no row and leaves
\* an empty table; and a pointer event checked under such a count is rejected
\* before the echo and the gain write.
C38_EmptySession ==
    /\ [][(pc["listener"] = "h_body" /\ pc'["listener"] # "h_body"
              /\ tmp.msg.addr = <<"pong">>) => loopCount' = tmp.msg.args[3].i]_vars
    /\ [][(pc["poll"] = "poll_cond" /\ pc'["poll"] # "poll_cond" /\ loopCount <= 0) =>
              (pc'["poll"] = "poll_sleep" /\ sent' = <<>>)]_vars
    /\ [][Polls(sent') # {} => (pc["poll"] = "poll_send" /\ tmp.sweepN > 0)]_vars
    /\ []((pc["main"] \in {"ut_cond", "ut_row", "ut_unlock"} /\ loopCount <= 0) =>
              tmp.rows = <<>>)
    /\ [][(pc["main"] = "ut_unlock" /\ pc'["main"] = "ui" /\ loopCount <= 0) =>
              DOMAIN snapshot' = {}]_vars
    /\ [][(pc["main"] = "mc_check" /\ pc'["main"] # "mc_check" /\ loopCount <= 0) =>
              (pc'["main"] = "ui" /\ loopStates' = loopStates /\ sent' = <<>>)]_vars

\* A pong lowered the count of a session with an entry for loop 0 to zero or
\* less; the sweep that followed went to sleep without a poll and the render
\* pass that followed reached its end with no row.
C38_Witness ==
    /\ loopCount <= 0 /\ HasEntry(loopStates, 0)
    /\ pc["poll"] = "poll_sleep" /\ tmp.pi = 0 /\ tmp.sweepN <= 0
    /\ pc["main"] = "ut_unlock" /\ tmp.rows = <<>>

\* --------------------------------------------------------------- SpecMock
\* The program next to the OSC mock of src/mock_api.go.  net holds the
\* datagrams on the mock's socket and the mock's replies on their way to the
\* listener; a datagram that is never served or delivered is lost.  The
\* handlers are single steps, as in Spec.

\* The pointer event of SpecMock: a click at the right edge of row 1.
MockMouse == {Ev("MouseLeftClick", TRUE, 1, LevelCol, MaxWidth, MaxWidth)}

\* /get_strip_gain messages that reach the mock from elsewhere: one for an id
\* this program does not poll, and ones with wrong arity, wrong argument types
\* or a return URL that does not parse.
StrayPolls ==
    {[to |-> "mock", msg |-> Msg(<<"get_strip_gain">>, a)] :
        a \in {<<Int32(MaxIdx + 2), Str("url"), PathArg(GainAddr(MaxIdx + 2))>>,
               <<Int32(1), Str("url")>>,
               <<Str("1"), Str("url"), PathArg(GainAddr(1))>>,
               <<Int32(1), Str("nourl"), PathArg(GainAddr(1))>>}}

\* The pointer callback on event ev: the echo, and the gain write goes out to
\* the mock.
MockClick(ev) ==
    /\ Accepted(ev, loopCount)
    /\ LET wet == WetOfFill(RawFill(ev.relX, ev.width))
       IN  /\ loopStates' = EchoWet(loopStates, ev.row - 1, wet)
           /\ sent' = <<GainWrite(ev.row, wet)>>
           /\ net' = net \cup {GainWrite(ev.row, wet)}
    /\ lastOp' = Op("mouse", NoMsg, ev)
    /\ prev' = Shared
    /\ UNCHANGED <<loopCount, mu, pc, tmp, snapshot, steps, engine>>

\* poll: one iteration of the sweep; the gain poll goes out to the mock.
MockSweep ==
    /\ pc["poll"] = "poll_cond"
    /\ tmp.pi < loopCount
    /\ sent' = <<PollMsg(tmp.pi, "state"), PollMsg(tmp.pi, "next_state"),
                 PollGainMsg(tmp.pi + 1)>>
    /\ net' = net \cup {PollGainMsg(tmp.pi + 1)}
    /\ tmp' = [tmp EXCEPT !.pi = @ + 1]
    /\ lastOp' = Op("poll", NoMsg, NoEv)
    /\ prev' = Shared
    /\ UNCHANGED <<loopStates, loopCount, mu, pc, snapshot, steps, engine>>

\* A /get_strip_gain message from elsewhere arrives at the mock's socket.
Stray(m) ==
    /\ m \notin net
    /\ net' = net \cup {m}
    /\ sent' = <<>>
    /\ lastOp' = Op("stray", m.msg, NoEv)
    /\ prev' = Shared
    /\ UNCHANGED <<loopStates, loopCount, mu, pc, tmp, snapshot, steps, engine>>

MockServe_Stateful(m) ==
    /\ m \in net /\ m.to = "mock"
    /\ LET set == mockStripGainPathRegex(m.msg.addr) # ""
                      /\ Len(m.msg.args) = 1 /\ m.msg.args[1].t = "float32"
           replies == {[r EXCEPT !.msg.args = <<F32(engine.vals["wet"])>>] :
                           r \in mockHandler(m.msg)}
       IN  /\ engine' = IF set THEN [engine EXCEPT !.vals["wet"] = m.msg.args[1].f]
                        ELSE engine
           /\ net' = (net \ {m}) \cup replies
           /\ sent' = IF replies = {} THEN <<>> ELSE <<CHOOSE r \in replies : TRUE>>
    /\ lastOp' = Op("serve", m.msg, NoEv)
    /\ prev' = Shared
    /\ UNCHANGED <<loopStates, loopCount, mu, pc, tmp, snapshot, steps>>

\* The mock's handler runs on datagram m and sends what it replies.
MockServe(m) ==
    /\ m \in net /\ m.to = "mock"
    /\ LET replies == mockHandler(m.msg)
       IN  /\ net' = (net \ {m}) \cup replies
           /\ sent' = IF replies = {} THEN <<>> ELSE <<CHOOSE r \in replies : TRUE>>
    /\ lastOp' = Op("serve", m.msg, NoEv)
    /\ prev' = Shared
    /\ UNCHANGED <<loopStates, loopCount, mu, pc, tmp, snapshot, steps, engine>>

\* The listener receives a reply of the mock and handleOSC dispatches it.
MockDeliver(m) ==
    /\ m \in net /\ m.to = "gui"
    /\ net' = net \ {m}
    /\ LET s == handleOSC(Shared, m.msg)
       IN  /\ loopStates' = s.loopStates
           /\ loopCount' = s.loopCount
    /\ sent' = <<>>
    /\ lastOp' = Op("osc", m.msg, NoEv)
    /\ prev' = Shared
    /\ UNCHANGED <<mu, pc, tmp, snapshot, steps, engine>>

NextMock ==
    \/ \E ev \in MockMouse : MockClick(ev)
    \/ MockSweep \/ LiveSleep
    \/ \E m \in StrayPolls : Stray(m)
    \/ \E m \in net : MockServe(m)
    \/ \E m \in net : MockDeliver(m)

SpecMock == InitLive /\ [][NextMock]_vars

\* ------------------------------------------------ claims checked on SpecMock

\* /get_strip_gain [id:int32, returnURL:string, replyPath:string] with a
\* return URL of the form osc.udp://host:port.
WellFormedGainPoll(msg) ==
    /\ msg.addr = <<"get_strip_gain">>
    /\ Len(msg.args) = 3
    /\ msg.args[1].t = "int32" /\ msg.args[2] = Str("url") /\ msg.args[3].t = "string"

Served == lastOp.kind = "serve"

\* C40: the mock keeps no gain state.  Serving a well-formed gain poll sends
\* exactly one reply, the single float 0.75 at the reply path the poll names,
\* for every id and whatever gain writes were served before; serving a gain
\* write or a gain poll with wrong arity or argument types sends nothing; no
\* step changes what the mock would answer; every reply in flight carries
\* 0.75; and after a reply is delivered the local gain of its loop is 0.75,
\* also when a pointer event had written another value.
C40_MockIsStateless ==
    /\ Served =>
           IF WellFormedGainPoll(lastOp.msg)
           THEN sent = <<[to |-> "gui",
                          msg |-> Msg(lastOp.msg.args[3].p, <<F32((3 * Unit) \div 4)>>)]>>
           ELSE sent = <<>>
    /\ engine = EngineInit
    /\ \A m \in net : m.to = "gui" => m.msg.args = <<F32((3 * Unit) \div 4)>>
    /\ (Dispatched /\ stripGainPathRegex(lastOp.msg.addr) # "") =>
           LET idx == Atoi(stripGainPathRegex(lastOp.msg.addr)).n - 1
           IN  /\ HasEntry(loopStates, idx)
               /\ loopStates[idx].Wet = (3 * Unit) \div 4

\* A pointer event wrote another gain for loop 0 and its gain write is no
\* longer on the mock's socket; the reply to a later poll was delivered and
\* set the local gain of loop 0 back to 0.75.
C40_Witness ==
    /\ Dispatched /\ lastOp.msg.addr = GainAddr(1)
    /\ HasEntry(prev.loopStates, 0)
    /\ prev.loopStates[0].Wet = MaxWet
    /\ loopStates[0].Wet = (3 * Unit) \div 4
    /\ \A m \in net : mockStripGainPathRegex(m.msg.addr) = "" \/ m.to = "gui"

====
